---- MODULE Spec2Model ----
(***************************************************************************)
(* A model of raui-core's Application: the pass gate, the reconciliation   *)
(* walk (process_node / process_node_component / process_node_unit), the  *)
(* post-walk bookkeeping and the conversion to the frozen WidgetUnit tree. *)
(* Spec runs the Application; TeleportSpec steps teleport_portals through  *)
(* frozen trees that hold portals.                                         *)
(***************************************************************************)
EXTENDS Integers, Sequences, FiniteSets, TLC

VARIABLES
    tree,                     \* Application::tree (WidgetNode)
    rendered_tree,            \* Application::rendered_tree (WidgetUnit)
    states,                   \* Application::states
    state_changes,            \* Application::state_changes
    animators,                \* Application::animators
    messages,                 \* Application::messages
    signals,                  \* Application::signals
    unmount_closures,         \* Application::unmount_closures
    dirty,                    \* Application::dirty
    render_changed,           \* Application::render_changed
    last_invalidation_cause,  \* Application::last_invalidation_cause
    change_notifier,          \* Application::change_notifier (shared AtomicBool)
    op,                       \* observation: the last operation called
    ret,                      \* observation: value returned by the last process call
    ran,                      \* observation: the last process call ran a pass
    converted,                \* observation: the last pass converted its result
    log,                      \* observation: life-cycle events of the last pass
    used_ids,                 \* observation: used_ids of the last pass
    pass_tree,                \* observation: the tree the last pass walked
    walked,                   \* observation: the node the walk of the last pass returned
    changed,                  \* observation: the last process call changed rendered_tree
    outbox,                   \* observation: the messages sent during the last pass,
                              \* each with the identity it is for, in sending order
    dropped,                  \* observation: the animators entries the last pass removed
    walk_stores,              \* observation: self.animators, self.unmount_closures and
                              \* self.state_changes when the walk of the last pass
                              \* started and when it returned
    undelivered,              \* observation: what the last pass left in its local
                              \* `messages` when it returned
    mounts,                   \* observation: per Identity in the State store, how many
                              \* composite nodes were mounted under it
    teleport_pc,              \* teleport_portals: the step reached ("off" when the
                              \* application is what runs)
    root_in,                  \* observation: the root teleport_portals was called with
    t_root,                   \* teleport_portals: root
    t_count,                  \* teleport_portals: count
    t_portals,                \* teleport_portals: portals
    stripped,                 \* observation: root when consume_portals returned
    extracted,                \* observation: portals when consume_portals returned
    idle,                     \* observation: how many process calls in a row found
                              \* nothing to do, with no triggering call since (up to 2)
    pass_pc,                  \* process_with_context: the step reached ("off" when
                              \* the call is taken as one step)
    frame_stack,              \* the open calls of process_node_component, innermost
                              \* last: the invocation and what its closures emitted
    frame_node,               \* the node handed to process_node, or returned by it
    frame_w,                  \* the stores and channels of the walk in progress
    frame_delta,              \* animations_delta_time of the pass in progress
    took,                     \* observation: what consume_change found in the call
                              \* in progress, and the dirty flag it found
    unanswered,               \* observation: a change was signalled and no call
                              \* has consumed the flag since
    given_during,             \* observation: the last change was signalled while a
                              \* call of process was executing
    n_signal,                 \* observation: how many changes were signalled
    n_notified,               \* observation: how many passes ran only because the
                              \* call had consumed a signalled change
    fn_pc,                    \* a function called on its own: "off", "called", "done"
    fn_in,                    \* the function called and its arguments
    fn_out,                   \* what the call returned
    write_calls               \* observation: the calls of state_write, state_mutate
                              \* and state_mutate_cloned made since the last call of
                              \* process, when the driver that makes them is tracked

app_vars == <<tree, rendered_tree, states, state_changes, animators, messages, signals,
          unmount_closures, dirty, render_changed, last_invalidation_cause,
          change_notifier, op, ret, ran, converted, log, used_ids, pass_tree, walked,
          changed, outbox, dropped, walk_stores, undelivered,
          mounts, idle>>

teleport_vars == <<teleport_pc, root_in, t_root, t_count, t_portals, stripped, extracted>>

pass_vars == <<pass_pc, frame_stack, frame_node, frame_w, frame_delta, took, unanswered,
               given_during, n_signal, n_notified>>

fn_vars == <<fn_pc, fn_in, fn_out>>

write_vars == <<write_calls>>

vars == <<app_vars, teleport_vars, pass_vars, fn_vars, write_vars>>

----------------------------------------------------------------------------
(* Bounds *)

MaxCount == 2       \* largest value a state payload counts up to
MaxQueue == 1       \* most messages the driver has queued at one time
MaxAnim == 1        \* duration, in time steps, of a started animation

----------------------------------------------------------------------------
(* Option<T>, Props and HashMap helpers *)

None == <<>>
Some(x) == <<x>>

EmptyMap == [k \in {} |-> 0]

MapRemove(m, k) == [x \in DOMAIN m \ {k} |-> m[x]]

MapInsert(m, k, v) == [x \in DOMAIN m \cup {k} |-> IF x = k THEN v ELSE m[x]]

MapRestrict(m, S) == [x \in DOMAIN m \cap S |-> m[x]]

\* Props::default()
DefaultProps == EmptyMap

\* Props::merge: the argument's entries override the receiver's
PropsMerge(self, other) == [k \in DOMAIN self \cup DOMAIN other |->
                               IF k \in DOMAIN other THEN other[k] ELSE self[k]]

\* the counter a widget keeps in its state payload
StateValue(state) == IF "v" \in DOMAIN state THEN state["v"] ELSE 0

----------------------------------------------------------------------------
(* WidgetId *)

RECURSIVE JoinPath(_)
JoinPath(path) == IF path = <<>> THEN ""
                  ELSE "/" \o Head(path) \o JoinPath(Tail(path))

WidgetIdNew(type_name, path) ==
    [id |-> type_name \o ":" \o JoinPath(path),
     type_name_len |-> Len(type_name) % 256,
     key_len |-> (IF path = <<>> THEN 0 ELSE Len(path[Len(path)])) % 256,
     depth |-> Len(path)]

\* WidgetId::default()
WidgetIdDefault == [id |-> "", type_name_len |-> 0, key_len |-> 0, depth |-> 0]

----------------------------------------------------------------------------
(* WidgetNode and WidgetUnitNode constructors *)

NoneNode == [kind |-> "None"]

\* a WidgetComponent with listed slots only
Component(type_name, key, listed_slots) ==
    [kind |-> "Component", type_name |-> type_name, key |-> key,
     shared_props |-> None, listed_slots |-> listed_slots, named_slots |-> EmptyMap]

\* a WidgetComponent with named slots only
ComponentNamed(type_name, key, named_slots) ==
    [kind |-> "Component", type_name |-> type_name, key |-> key,
     shared_props |-> None, listed_slots |-> <<>>, named_slots |-> named_slots]

\* WidgetComponent::with_shared_props
WithSharedProps(component, props) == [component EXCEPT !.shared_props = Some(props)]

TupleNode(nodes) == [kind |-> "Tuple", nodes |-> nodes]

UnitNone == [kind |-> "Unit", unit |-> "None"]

TextBoxNode(id, text) == [kind |-> "Unit", unit |-> "TextBox", id |-> id, text |-> text]

SizeBoxNode(id, slot) == [kind |-> "Unit", unit |-> "SizeBox", id |-> id, slot |-> slot]

ContentBoxNode(id, items) ==
    [kind |-> "Unit", unit |-> "ContentBox", id |-> id, items |-> items]

\* ContentBoxItemNode { slot, ..Default::default() }
Item(slot) == [slot |-> slot, layout |-> 0]

RECURSIVE Items(_)
Items(nodes) == IF nodes = <<>> THEN <<>>
                ELSE <<Item(Head(nodes))>> \o Items(Tail(nodes))

FlexBoxNode(id, items) ==
    [kind |-> "Unit", unit |-> "FlexBox", id |-> id, items |-> items]

SingleSlot == {"AreaBox", "SizeBox"}

MultiSlot == {"ContentBox", "FlexBox", "GridBox"}

----------------------------------------------------------------------------
(* AnimatorStates: a map from sub-animation name to its remaining time *)

AnimatorDefault == EmptyMap

\* AnimatorStates::in_progress
InProgress(a) == \E name \in DOMAIN a : a[name] > 0

\* AnimatorStates::process: every sub-animation advances by the elapsed time
AnimatorProcess(a, delta) ==
    [name \in DOMAIN a |-> IF a[name] > delta THEN a[name] - delta ELSE 0]

\* AnimatorStates::change(name, data)
AnimatorChange(a, name, data) ==
    IF data = None THEN MapRemove(a, name) ELSE MapInsert(a, name, data[1])

\* AnimatorStates::new(name, data)
AnimatorNew(name, data) == MapInsert(EmptyMap, name, data)

----------------------------------------------------------------------------
(* Component processors (FnWidget) and the closures they register.  A     *)
(* closure is named by what it does with its context.                      *)

\* unpack_named_slots!: the slot of that name, or an empty node
NamedSlot(named_slots, name) ==
    IF name \in DOMAIN named_slots THEN named_slots[name] ELSE NoneNode

FirstSlot(listed_slots) == IF listed_slots = <<>> THEN NoneNode ELSE Head(listed_slots)

NoLifeCycle == [mount |-> <<>>, change |-> <<>>, unmount |-> <<>>]

\* flex_box: a FlexBox unit with the listed slots as its items
FlexBoxWidget(ctx) ==
    [node |-> FlexBoxNode(ctx.id, Items(ctx.listed_slots)), life_cycle |-> NoLifeCycle]

\* size_box: a SizeBox unit around the named slot "content"
SizeBoxWidget(ctx) ==
    [node |-> SizeBoxNode(ctx.id, NamedSlot(ctx.named_slots, "content")),
     life_cycle |-> NoLifeCycle]

\* vertical_box: a flex_box component under the key the vertical_box resolved
VerticalBoxWidget(ctx) ==
    [node |-> Component("flex_box", Some(ctx.key), ctx.listed_slots),
     life_cycle |-> NoLifeCycle]

\* a widget that shows its state, counts the messages it receives into it on
\* change, and signals on mount and on unmount
CounterWidget(ctx) ==
    [node |-> TextBoxNode(ctx.id, StateValue(ctx.state)),
     life_cycle |-> [mount |-> <<"signal">>, change |-> <<"count_messages">>,
                     unmount |-> <<"signal_state">>]]

\* a widget that writes its state on mount, expands to its first listed
\* slot once the state is set, and on change tells the widget in that slot,
\* in two messages, that it received messages itself
OpenerWidget(ctx) ==
    [node |-> IF StateValue(ctx.state) >= 1 THEN FirstSlot(ctx.listed_slots)
              ELSE NoneNode,
     life_cycle |-> [mount |-> <<"write_one">>, change |-> <<"forward">>,
                     unmount |-> <<>>]]

\* a widget that starts an animation on mount and shows whether it runs
AnimatedWidget(ctx) ==
    [node |-> TextBoxNode(ctx.id, IF InProgress(ctx.animator) THEN 1 ELSE 0),
     life_cycle |-> [mount |-> <<"animate">>, change |-> <<>>,
                     unmount |-> <<"signal_state">>]]

\* a widget that expands to a component of its own type
LooperWidget(ctx) ==
    [node |-> Component("looper", None, <<>>), life_cycle |-> NoLifeCycle]

\* two widgets that expand to a component of each other's type
PingWidget(ctx) ==
    [node |-> Component("pong", None, <<>>), life_cycle |-> NoLifeCycle]

PongWidget(ctx) ==
    [node |-> Component("ping", None, <<>>), life_cycle |-> NoLifeCycle]

\* (processor)(context): the call of the component's processor
Processor(type_name, ctx) ==
    CASE type_name = "flex_box" -> FlexBoxWidget(ctx)
      [] type_name = "looper" -> LooperWidget(ctx)
      [] type_name = "ping" -> PingWidget(ctx)
      [] type_name = "pong" -> PongWidget(ctx)
      [] type_name = "size_box" -> SizeBoxWidget(ctx)
      [] type_name = "vertical_box" -> VerticalBoxWidget(ctx)
      [] type_name = "counter" -> CounterWidget(ctx)
      [] type_name = "opener" -> OpenerWidget(ctx)
      [] OTHER -> AnimatedWidget(ctx)

Min(a, b) == IF a < b THEN a ELSE b

\* the channels a closure of one component invocation writes to
\* the identity of the widget the opener of TreeOpener expands to
IdOpened == WidgetIdNew("counter", <<"<*>", "<*>", "o", "<0>">>)

NoEffects == [state_q |-> <<>>, anim_q |-> <<>>, sent |-> <<>>, sigs |-> <<>>]

\* a mount or change closure called with a WidgetMountOrChangeContext
RunClosure(closure, id, state, messages_list, acc) ==
    CASE closure = "signal" ->
           [acc EXCEPT !.sigs = Append(@, <<id, "mounted">>)]
      [] closure = "write_one" ->
           [acc EXCEPT !.state_q = Append(@, MapInsert(EmptyMap, "v", 1))]
      [] closure = "count_messages" ->
           IF messages_list = <<>> THEN acc
           ELSE [acc EXCEPT !.state_q = Append(@, MapInsert(EmptyMap, "v",
                     Min(StateValue(state) + Len(messages_list), MaxCount)))]
      [] closure = "forward" ->
           IF messages_list = <<>> THEN acc
           ELSE [acc EXCEPT !.sent = @ \o <<<<IdOpened, "first">>, <<IdOpened, "second">>>>]
      [] closure = "animate" ->
           [acc EXCEPT !.anim_q = Append(@, <<"a", Some(MaxAnim)>>)]
      [] OTHER -> acc

RECURSIVE RunClosures(_, _, _, _, _)
RunClosures(closures, id, state, messages_list, acc) ==
    IF closures = <<>> THEN acc
    ELSE RunClosures(Tail(closures), id, state, messages_list,
                     RunClosure(Head(closures), id, state, messages_list, acc))

\* an unmount closure called with a WidgetUnmountContext
RunUnmountClosure(closure, id, state, acc) ==
    CASE closure = "signal_state" ->
           [acc EXCEPT !.sigs = Append(@, <<id, StateValue(state)>>)]
      [] OTHER -> acc

RECURSIVE RunUnmountClosures(_, _, _, _)
RunUnmountClosures(closures, id, state, acc) ==
    IF closures = <<>> THEN acc
    ELSE RunUnmountClosures(Tail(closures), id, state,
                            RunUnmountClosure(Head(closures), id, state, acc))

----------------------------------------------------------------------------
(* The reconciliation walk.  w carries what the walk mutates: the local    *)
(* messages, new_states and used_ids, self.animators, self.unmount_closures*)
(* and self.state_changes, the message and signal channels, and the        *)
(* observation log.                                                        *)

\* drain of animation_receiver into self.animators
RECURSIVE ApplyAnimations(_, _, _)
ApplyAnimations(anims, id, anim_q) ==
    IF anim_q = <<>> THEN anims
    ELSE LET name == Head(anim_q)[1]
             data == Head(anim_q)[2]
             next == IF id \in DOMAIN anims
                       THEN MapInsert(anims, id, AnimatorChange(anims[id], name, data))
                     ELSE IF data # None
                       THEN MapInsert(anims, id, AnimatorNew(name, data[1]))
                     ELSE anims
         IN  ApplyAnimations(next, id, Tail(anim_q))

\* a drain that leaves the pending store as it was during the walk
DeferredStateWrites(changes, id, state_q) == changes

\* drain of state_receiver into self.state_changes
RECURSIVE ApplyStateWrites(_, _, _)
ApplyStateWrites(changes, id, state_q) ==
    IF state_q = <<>> THEN changes
    ELSE ApplyStateWrites(MapInsert(changes, id, Head(state_q)), id, Tail(state_q))

\* a merge in which the payload of the parent overrides the component's own
MergeParentWins(master_shared_props, shared_props) ==
    IF master_shared_props # None /\ shared_props # None
      THEN PropsMerge(shared_props[1], master_shared_props[1])
    ELSE IF shared_props # None THEN shared_props[1]
    ELSE IF master_shared_props # None THEN master_shared_props[1]
    ELSE DefaultProps

\* the match on (master_shared_props, shared_props)
MergeSharedProps(master_shared_props, shared_props) ==
    IF master_shared_props # None /\ shared_props # None
      THEN PropsMerge(master_shared_props[1], shared_props[1])
    ELSE IF shared_props # None THEN shared_props[1]
    ELSE IF master_shared_props # None THEN master_shared_props[1]
    ELSE DefaultProps

\* a walk that takes every composite for a new one
IsMountedAlways(states_, id) == TRUE

\* the life-cycle branch of a component invocation
IsMounted(states_, id) == id \notin DOMAIN states_

\* an index placeholder that counts the slots from 1
IndexKeyFromOne(i) == "<" \o ToString(i + 1) \o ">"

\* format!("<{}>", i)
IndexKey(i) == "<" \o ToString(i) \o ">"

RECURSIVE ProcessNode(_, _, _, _, _, _)
RECURSIVE ProcessNodeComponent(_, _, _, _, _, _)
RECURSIVE ProcessNodeUnit(_, _, _, _, _)
RECURSIVE ProcessItems(_, _, _, _, _, _)

\* a walk that goes into tuples, as it goes into the items of a container
ProcessNodeIntoTuples(node, states_, path, possible_key, master_shared_props, w) ==
    CASE node.kind = "Component" ->
           ProcessNodeComponent(node, states_, path, possible_key, master_shared_props, w)
      [] node.kind = "Unit" ->
           ProcessNodeUnit(node, states_, path, master_shared_props, w)
      [] node.kind = "Tuple" ->
           LET r == ProcessItems(Items(node.nodes), 1, states_, path,
                                 master_shared_props, w)
           IN  [node |-> [node EXCEPT !.nodes = [i \in 1..Len(r.items) |-> r.items[i].slot]],
                w |-> r.w]
      [] OTHER -> [node |-> node, w |-> w]

\* process_node: a component or a unit is walked, anything else is returned
ProcessNode(node, states_, path, possible_key, master_shared_props, w) ==
    CASE node.kind = "Component" ->
           ProcessNodeComponent(node, states_, path, possible_key, master_shared_props, w)
      [] node.kind = "Unit" ->
           ProcessNodeUnit(node, states_, path, master_shared_props, w)
      [] OTHER -> [node |-> node, w |-> w]

\* a drain that hands out only the oldest message of the list
MessagesListOldest(msgs, id) ==
    IF id \in DOMAIN msgs /\ msgs[id] # <<>> THEN <<Head(msgs[id])>> ELSE <<>>

\* messages.remove(&id): the whole list queued for the identity, or an empty one
MessagesList(msgs, id) == IF id \in DOMAIN msgs THEN msgs[id] ELSE <<>>

\* a key that is the positional placeholder whatever the component's own key
PositionalKey(component, possible_key) == possible_key

\* the key of a component: its own when it has one, or else the possible_key
\* process_node_component was called with
ResolvedKey(component, possible_key) ==
    IF component.key # None THEN component.key[1] ELSE possible_key

\* process_node_component up to the call of the processor: the identity
\* of the component and what the stores hold for it
Invocation(component, states_, path0, possible_key, master_shared_props, w) ==
    LET key == ResolvedKey(component, possible_key)
        id == WidgetIdNew(component.type_name, Append(path0, key))
    IN  [id |-> id,
         key |-> key,
         type_name |-> component.type_name,
         explicit |-> component.key,
         possible_key |-> possible_key,
         path |-> Append(path0, key),
         shared_props |-> MergeSharedProps(master_shared_props, component.shared_props),
         master |-> master_shared_props,
         own |-> component.shared_props,
         messages_list |-> MessagesList(w.messages, id),
         mounted |-> IsMounted(states_, id),
         state |-> IF IsMounted(states_, id) THEN DefaultProps ELSE states_[id],
         animator |-> IF id \in DOMAIN w.animators THEN w.animators[id]
                      ELSE AnimatorDefault]

\* the WidgetContext the processor is called with
Context(component, inv) ==
    [id |-> inv.id, key |-> inv.key, shared_props |-> inv.shared_props,
     state |-> inv.state, animator |-> inv.animator,
     named_slots |-> component.named_slots, listed_slots |-> component.listed_slots]

\* an invocation that calls the mount closures and then the change closures
ClosuresOfBoth(inv, life_cycle) == life_cycle.mount \o life_cycle.change

\* the closures process_node_component calls: mount or change
Closures(inv, life_cycle) == IF inv.mounted THEN life_cycle.mount ELSE life_cycle.change

\* the life-cycle events of one invocation
Events(inv, closures) ==
    <<[ev |-> "invoke", id |-> inv.id, mounted |-> inv.mounted, state |-> inv.state,
       messages |-> inv.messages_list, closure |-> "",
       shared_props |-> inv.shared_props, master |-> inv.master, own |-> inv.own,
       type_name |-> inv.type_name, path |-> inv.path, explicit |-> inv.explicit,
       possible_key |-> inv.possible_key]>>
    \o [i \in 1..Len(closures) |->
          [ev |-> IF inv.mounted THEN "mount" ELSE "change", id |-> inv.id,
           mounted |-> inv.mounted, state |-> inv.state,
           messages |-> inv.messages_list, closure |-> closures[i]]]

\* the state replacements the closures of one invocation emitted, as events
Writes(inv, state_q) ==
    [i \in 1..Len(state_q) |->
       [ev |-> "write", id |-> inv.id, mounted |-> inv.mounted, state |-> state_q[i],
        messages |-> inv.messages_list, closure |-> ""]]

\* process_node_component from the call of the processor to the drain of the
\* animation channel
Invoked(inv, life_cycle, fx, w) ==
    [w EXCEPT
       !.used_ids = @ \cup {inv.id},
       !.messages = MapRemove(@, inv.id),
       !.new_states = IF inv.mounted THEN MapInsert(@, inv.id, inv.state) ELSE @,
       !.unmount_closures = IF life_cycle.unmount # <<>>
                              THEN MapInsert(@, inv.id, life_cycle.unmount)
                            ELSE @,
       !.animators = ApplyAnimations(@, inv.id, fx.anim_q),
       !.sent = @ \o fx.sent,
       !.sigs = @ \o fx.sigs,
       !.log = @ \o Events(inv, Closures(inv, life_cycle)) \o Writes(inv, fx.state_q)]

\* process_node_component from the recursion into the expansion to the end
Expand(inv, out, fx, states_, possible_key, w) ==
    LET r == ProcessNode(out.node, states_, inv.path, possible_key,
                         Some(inv.shared_props), Invoked(inv, out.life_cycle, fx, w))
    IN  [node |-> r.node,
         w |-> [r.w EXCEPT !.state_changes = ApplyStateWrites(@, inv.id, fx.state_q)]]

\* process_node_component once the processor has returned
Resolve(inv, out, states_, possible_key, w) ==
    Expand(inv, out,
           RunClosures(Closures(inv, out.life_cycle), inv.id, inv.state,
                       inv.messages_list, NoEffects),
           states_, possible_key, w)

\* process_node_component once the identity is known
Invoke(component, inv, states_, possible_key, w) ==
    Resolve(inv, Processor(component.type_name, Context(component, inv)),
            states_, possible_key, w)

ProcessNodeComponent(component, states_, path0, possible_key, master_shared_props, w) ==
    Invoke(component,
           Invocation(component, states_, path0, possible_key, master_shared_props, w),
           states_, possible_key, w)

ProcessItems(items, i, states_, path, master_shared_props, w) ==
    IF i > Len(items) THEN [items |-> items, w |-> w]
    ELSE LET r == ProcessNode(items[i].slot, states_, path, IndexKey(i - 1),
                              master_shared_props, w)
         IN  ProcessItems([items EXCEPT ![i].slot = r.node], i + 1, states_, path,
                          master_shared_props, r.w)

ProcessNodeUnit(unit, states_, path, master_shared_props, w) ==
    CASE unit.unit \in SingleSlot ->
           LET r == ProcessNode(unit.slot, states_, path, ".", master_shared_props, w)
           IN  [node |-> [unit EXCEPT !.slot = r.node], w |-> r.w]
      [] unit.unit = "PortalBox" ->
           LET r == ProcessNode(unit.slot.slot, states_, path, ".", master_shared_props, w)
           IN  [node |-> [unit EXCEPT !.slot.slot = r.node], w |-> r.w]
      [] unit.unit \in MultiSlot ->
           LET r == ProcessItems(unit.items, 1, states_, path, master_shared_props, w)
           IN  [node |-> [unit EXCEPT !.items = r.items], w |-> r.w]
      [] OTHER -> [node |-> unit, w |-> w]

----------------------------------------------------------------------------
(* Conversion of the walked WidgetNode to the frozen WidgetUnit            *)

\* WidgetUnit::None
NoUnit == [unit |-> "None"]

Failed == [ok |-> FALSE, unit |-> NoUnit]

RECURSIVE TryFromWidgetNode(_)
RECURSIVE TryFromUnitNode(_)
RECURSIVE TryFromItems(_)
RECURSIVE TryFromTuple(_)

\* a conversion that lets an unresolved component through as nothing
TryFromLenient(node) ==
    CASE node.kind = "None" -> [ok |-> TRUE, unit |-> NoUnit]
      [] node.kind = "Component" -> [ok |-> TRUE, unit |-> NoUnit]
      [] node.kind = "Unit" -> TryFromUnitNode(node)
      [] OTHER -> TryFromTuple(node.nodes)

TryFromWidgetNode(node) ==
    CASE node.kind = "None" -> [ok |-> TRUE, unit |-> NoUnit]
      [] node.kind = "Component" -> Failed
      [] node.kind = "Unit" -> TryFromUnitNode(node)
      [] OTHER -> TryFromTuple(node.nodes)

\* a tuple holds no frozen form: it converts to nothing unless a node in it
\* is still an unresolved component
TryFromTuple(nodes) ==
    IF nodes = <<>> THEN [ok |-> TRUE, unit |-> NoUnit]
    ELSE IF TryFromWidgetNode(Head(nodes)).ok THEN TryFromTuple(Tail(nodes))
    ELSE Failed

TryFromItems(items) ==
    IF items = <<>> THEN [ok |-> TRUE, items |-> <<>>]
    ELSE LET h == TryFromWidgetNode(Head(items).slot)
             t == TryFromItems(Tail(items))
         IN  IF h.ok /\ t.ok
               THEN [ok |-> TRUE,
                     items |-> <<[slot |-> h.unit, layout |-> Head(items).layout]>>
                               \o t.items]
             ELSE [ok |-> FALSE, items |-> <<>>]

TryFromUnitNode(u) ==
    CASE u.unit = "None" -> [ok |-> TRUE, unit |-> NoUnit]
      [] u.unit \in SingleSlot ->
           LET r == TryFromWidgetNode(u.slot)
           IN  IF r.ok THEN [ok |-> TRUE,
                             unit |-> [unit |-> u.unit, id |-> u.id, slot |-> r.unit]]
               ELSE Failed
      [] u.unit = "PortalBox" ->
           LET r == TryFromWidgetNode(u.slot.slot)
           IN  IF r.ok THEN [ok |-> TRUE,
                             unit |-> [unit |-> u.unit, id |-> u.id, owner |-> u.owner,
                                       slot |-> [u.slot EXCEPT !.slot = r.unit]]]
               ELSE Failed
      [] u.unit \in MultiSlot ->
           LET r == TryFromItems(u.items)
           IN  IF r.ok THEN [ok |-> TRUE,
                             unit |-> [unit |-> u.unit, id |-> u.id, items |-> r.items]]
               ELSE Failed
      [] OTHER -> [ok |-> TRUE, unit |-> [unit |-> u.unit, id |-> u.id, text |-> u.text]]

----------------------------------------------------------------------------
(* Portal teleportation on the frozen tree                                 *)

\* PortalBox::default(), what std::mem::take leaves behind
PortalBoxDefault ==
    [unit |-> "PortalBox", id |-> WidgetIdDefault, owner |-> WidgetIdDefault,
     slot |-> [kind |-> "Slot", slot |-> NoUnit, layout |-> 0]]

\* a take that leaves nothing where the portal was
TakenAway(b) == NoUnit

\* a take that leaves the portal, with its owner and payload, where it was
LeftInPlace(b) == b

\* what std::mem::take(b) leaves in the PortalBox it takes
Taken(b) == PortalBoxDefault

RECURSIVE EstimatePortals(_)
RECURSIVE EstimatePortalsItems(_)

EstimatePortals(unit) ==
    CASE unit.unit \in SingleSlot -> EstimatePortals(unit.slot)
      [] unit.unit = "PortalBox" -> EstimatePortals(unit.slot.slot) + 1
      [] unit.unit \in MultiSlot -> EstimatePortalsItems(unit.items)
      [] OTHER -> 0

EstimatePortalsItems(items) ==
    IF items = <<>> THEN 0
    ELSE EstimatePortals(Head(items).slot) + EstimatePortalsItems(Tail(items))

RECURSIVE ConsumePortals(_, _)
RECURSIVE ConsumePortalsItems(_, _, _)

\* returns the stripped unit and the bucket
ConsumePortals(unit, bucket) ==
    CASE unit.unit \in SingleSlot ->
           LET r == ConsumePortals(unit.slot, bucket)
           IN  [unit |-> [unit EXCEPT !.slot = r.unit], bucket |-> r.bucket]
      [] unit.unit = "PortalBox" ->
           LET r == ConsumePortals(unit.slot.slot, bucket)
           IN  [unit |-> Taken(unit),
                bucket |-> Append(r.bucket,
                                  <<unit.owner, [unit.slot EXCEPT !.slot = r.unit]>>)]
      [] unit.unit \in MultiSlot ->
           LET r == ConsumePortalsItems(unit.items, 1, bucket)
           IN  [unit |-> [unit EXCEPT !.items = r.items], bucket |-> r.bucket]
      [] OTHER -> [unit |-> unit, bucket |-> bucket]

ConsumePortalsItems(items, i, bucket) ==
    IF i > Len(items) THEN [items |-> items, bucket |-> bucket]
    ELSE LET r == ConsumePortals(items[i].slot, bucket)
         IN  ConsumePortalsItems([items EXCEPT ![i].slot = r.unit], i + 1, r.bucket)

\* Vec::swap_remove: the last element takes the place of the removed one
SwapRemove(v, index) ==
    IF index = Len(v) THEN SubSeq(v, 1, Len(v) - 1)
    ELSE SubSeq([v EXCEPT ![index] = v[Len(v)]], 1, Len(v) - 1)

\* portals.iter().position(|(id, _)| data.id() == id), 0 when there is none
Position(portals, id) ==
    IF \E i \in 1..Len(portals) : portals[i][1] = id
      THEN CHOOSE i \in 1..Len(portals) :
             /\ portals[i][1] = id
             /\ \A j \in 1..(i - 1) : portals[j][1] # id
    ELSE 0

\* a graft that keeps the child a single-slot box has
KeptSlot(unit, slot) == IF unit.slot.unit # "None" THEN unit.slot ELSE slot.slot

\* the node a single-slot box holds after a graft: b.slot = Box::new(slot) for
\* a bare payload, b.slot = Box::new(item.slot) for an item
SoleSlot(unit, slot) == slot.slot

\* an item that keeps the layout of whatever item kind the payload was
KeptLayoutItem(unit_kind, slot) == [slot |-> slot.slot, layout |-> slot.layout]

\* the item pushed onto a multi-slot box for a portal payload
PortalItem(unit_kind, slot) ==
    IF \/ unit_kind = "ContentBox" /\ slot.kind = "ContentItem"
       \/ unit_kind = "FlexBox" /\ slot.kind = "FlexItem"
       \/ unit_kind = "GridBox" /\ slot.kind = "GridItem"
      THEN [slot |-> slot.slot, layout |-> slot.layout]
    ELSE [slot |-> slot.slot, layout |-> 0]

RECURSIVE InjectPortals(_, _)
RECURSIVE InjectLoop(_, _)
RECURSIVE InjectPortalsItems(_, _, _)

\* the while loop of inject_portals; returns the unit, the remaining portals
\* and the function's result
InjectLoop(unit, portals) ==
    IF unit.unit = "None" THEN [unit |-> unit, portals |-> portals, res |-> TRUE]
    ELSE LET index == Position(portals, unit.id)
         IN  IF index = 0 THEN [unit |-> unit, portals |-> portals, res |-> TRUE]
             ELSE LET slot == portals[index][2]
                      rest == SwapRemove(portals, index)
                  IN  CASE unit.unit \in SingleSlot ->
                             LET r == InjectPortals(SoleSlot(unit, slot), rest)
                                 u == [unit EXCEPT !.slot = r.unit]
                             IN  IF ~r.res
                                   THEN [unit |-> u, portals |-> r.portals, res |-> FALSE]
                                 ELSE InjectLoop(u, r.portals)
                        [] unit.unit \in MultiSlot ->
                             LET r == InjectPortalsItems(
                                        Append(unit.items, PortalItem(unit.unit, slot)),
                                        1, rest)
                                 u == [unit EXCEPT !.items = r.items]
                             IN  IF ~r.res
                                   THEN [unit |-> u, portals |-> r.portals, res |-> FALSE]
                                 ELSE InjectLoop(u, r.portals)
                        [] OTHER -> InjectLoop(unit, rest)

InjectPortals(unit, portals) ==
    IF portals = <<>> THEN [unit |-> unit, portals |-> portals, res |-> FALSE]
    ELSE InjectLoop(unit, portals)

InjectPortalsItems(items, i, portals) ==
    IF i > Len(items) THEN [items |-> items, portals |-> portals, res |-> TRUE]
    ELSE LET r == InjectPortals(items[i].slot, portals)
             its == [items EXCEPT ![i].slot = r.unit]
         IN  IF ~r.res THEN [items |-> its, portals |-> r.portals, res |-> FALSE]
             ELSE InjectPortalsItems(its, i + 1, r.portals)

TeleportPortals(root) ==
    IF EstimatePortals(root) = 0 THEN root
    ELSE LET c == ConsumePortals(root, <<>>)
         IN  InjectPortals(c.unit, c.bucket).unit

----------------------------------------------------------------------------
(* The pass gate and the invalidation cause                                *)

CauseNone == [kind |-> "None"]
CauseForced == [kind |-> "Forced"]
StateChange(id) == [kind |-> "StateChange", id |-> id]
MessageReceived(id) == [kind |-> "MessageReceived", id |-> id]
AnimationInProgress(id) == [kind |-> "AnimationInProgress", id |-> id]

AnimatingIds(anims) == {id \in DOMAIN anims : InProgress(anims[id])}

\* a gate that forgets the animators
ShouldRunNoAnimators(dirty_, changed_states, messages_, anims) ==
    \/ dirty_
    \/ DOMAIN changed_states # {}
    \/ DOMAIN messages_ # {}

\* a gate that forgets the forced flag
ShouldRunNotForced(dirty_, changed_states, messages_, anims) ==
    \/ DOMAIN changed_states # {}
    \/ DOMAIN messages_ # {}
    \/ AnimatingIds(anims) # {}

\* negation of the early-return condition of process_with_context
ShouldRun(dirty_, changed_states, messages_, anims) ==
    \/ dirty_
    \/ DOMAIN changed_states # {}
    \/ DOMAIN messages_ # {}
    \/ AnimatingIds(anims) # {}

\* the cause assigned in the opposite order: Forced wins, StateChange last
CausesForcedFirst(dirty_, changed_states, messages_, anims) ==
    IF dirty_ THEN {CauseForced}
    ELSE IF AnimatingIds(anims) # {}
      THEN {AnimationInProgress(id) : id \in AnimatingIds(anims)}
    ELSE IF DOMAIN messages_ # {}
      THEN {MessageReceived(id) : id \in DOMAIN messages_}
    ELSE {StateChange(id) : id \in DOMAIN changed_states}

\* the values last_invalidation_cause can end with: each later assignment
\* overwrites the earlier ones, and a HashMap yields any of its entries first
Causes(dirty_, changed_states, messages_, anims) ==
    LET c1 == IF dirty_ THEN {CauseForced} ELSE {CauseNone}
        c2 == IF AnimatingIds(anims) # {}
                THEN {AnimationInProgress(id) : id \in AnimatingIds(anims)} ELSE c1
        c3 == IF DOMAIN messages_ # {}
                THEN {MessageReceived(id) : id \in DOMAIN messages_} ELSE c2
    IN  IF DOMAIN changed_states # {}
          THEN {StateChange(id) : id \in DOMAIN changed_states} ELSE c3

----------------------------------------------------------------------------
(* Post-walk bookkeeping                                                   *)

RECURSIVE Perms(_)
Perms(S) == IF S = {} THEN {<<>>}
            ELSE UNION {{<<x>> \o p : p \in Perms(S \ {x})} : x \in S}

\* the unmount closures of the unused identities, fired in the order the
\* filter over the states meets them
RECURSIVE FireUnmounts(_, _, _, _)
FireUnmounts(order, all_states, closures, acc) ==
    IF order = <<>> THEN acc
    ELSE LET id == Head(order)
             fx == RunUnmountClosures(closures[id], id, all_states[id],
                                      [NoEffects EXCEPT !.sent = acc.sent,
                                                        !.sigs = acc.sigs])
             events == [i \in 1..Len(closures[id]) |->
                          [ev |-> "unmount", id |-> id, mounted |-> FALSE,
                           state |-> all_states[id], messages |-> <<>>,
                           closure |-> closures[id][i]]]
         IN  FireUnmounts(Tail(order), all_states, closures,
                          [sent |-> fx.sent, sigs |-> fx.sigs, log |-> acc.log \o events])

\* drain of message_receiver into self.messages
RECURSIVE ReceiveMessages(_, _)
ReceiveMessages(store, sent) ==
    IF sent = <<>> THEN store
    ELSE LET id == Head(sent)[1]
             message == Head(sent)[2]
         IN  ReceiveMessages(
               IF id \in DOMAIN store THEN [store EXCEPT ![id] = Append(@, message)]
               ELSE MapInsert(store, id, <<message>>),
               Tail(sent))

\* the stores the walk writes to through self
Stores(anims, closures, changes) ==
    [animators |-> anims, unmount_closures |-> closures, state_changes |-> changes]

\* the observation of a call that walked nothing
NoWalk == [before |-> Stores(EmptyMap, EmptyMap, EmptyMap),
           after |-> Stores(EmptyMap, EmptyMap, EmptyMap)]

\* a chaining that leaves the pending replacements out
UnmergedStates(old, changes) == old

\* a merge that lays a pending replacement over the entries of the old state
MergedPerKey(old, changes) ==
    [id \in DOMAIN old \cup DOMAIN changes |->
       IF id \in DOMAIN old /\ id \in DOMAIN changes THEN PropsMerge(old[id], changes[id])
       ELSE IF id \in DOMAIN changes THEN changes[id] ELSE old[id]]

\* old_states chained with changed_states and collected: a pending
\* replacement takes the place of the whole old state
MergedStates(old, changes) ==
    [id \in DOMAIN old \cup DOMAIN changes |->
       IF id \in DOMAIN changes THEN changes[id] ELSE old[id]]

\* the animators once self.animators has been processed with the elapsed time
ProcessedAnimators(delta) ==
    [id \in DOMAIN animators |-> AnimatorProcess(animators[id], delta)]

\* what the walk starts with: the stores it reads and writes, and the
\* channels of the pass
WalkStart(anims1) ==
    [messages |-> messages, new_states |-> EmptyMap, used_ids |-> {},
     animators |-> anims1, unmount_closures |-> unmount_closures,
     state_changes |-> EmptyMap, sent |-> <<>>, sigs |-> <<>>, log |-> <<>>]

\* process_with_context from the return of the walk to the chaining of the
\* states: the node and stores the walk returned with
Walked(node, w, merged, anims1) ==
    LET all == [id \in DOMAIN merged \cup DOMAIN w.new_states |->
                  IF id \in DOMAIN w.new_states THEN w.new_states[id] ELSE merged[id]]
    IN  [node |-> node, w |-> w, all |-> all, unused |-> DOMAIN all \ w.used_ids,
         stores |-> [before |-> Stores(anims1, unmount_closures, EmptyMap),
                     after |-> Stores(w.animators, w.unmount_closures, w.state_changes)]]

\* process_with_context from the animator update to the end of the walk
Walk(delta) ==
    LET anims1 == ProcessedAnimators(delta)
        merged == MergedStates(states, state_changes)
        walk == ProcessNode(tree, merged, <<>>, "<*>", None, WalkStart(anims1))
    IN  Walked(walk.node, walk.w, merged, anims1)

\* the unused identities that have unmount closures to fire
FiringIds(wk) == wk.unused \cap DOMAIN wk.w.unmount_closures

\* a pruning that leaves the animators of the unused identities in place
KeptAnimators(anims, unused) == anims

\* a pruning that spares the animators that are still in progress
KeptInProgress(anims, unused) ==
    MapRestrict(anims, (DOMAIN anims \ unused) \cup AnimatingIds(anims))

\* self.animators.remove(id) for every unused identity
PrunedAnimators(anims, unused) == MapRestrict(anims, DOMAIN anims \ unused)

\* a store that gets back the messages the walk did not hand out
KeptInStore(local) == local

\* self.messages after std::mem::take: the store starts the pass empty, and
\* what the walk leaves in the local copy is dropped with it
LeftInStore(local) == EmptyMap

\* a drain that adds the signals of the pass to those already in the list
AppendedSignals(old, sigs) == old \o sigs

\* self.signals.clear() and the drain of signal_receiver
DrainedSignals(old, sigs) == sigs

\* a filter that keeps the animators that have completed
KeptFinished(anims) == anims

\* the filter_map over self.animators: only those in progress are kept
FilteredAnimators(anims) == MapRestrict(anims, AnimatingIds(anims))

\* a filter that keeps the states of the unused identities
UnfilteredStates(all, used) == all

\* the filter over the chained states: an entry is kept when its identity
\* was used in the pass
FilteredStates(all, used) == MapRestrict(all, used)

\* process_with_context from the filter of the states to the drain of the
\* channels and the filter of the animators
Finish(wk, order) ==
    LET w == wk.w
        fired == FireUnmounts(order, wk.all, w.unmount_closures,
                              [sent |-> w.sent, sigs |-> w.sigs, log |-> w.log])
        anims2 == PrunedAnimators(w.animators, wk.unused)
    IN  [states |-> FilteredStates(wk.all, w.used_ids),
         state_changes |-> w.state_changes,
         unmount_closures |-> MapRestrict(w.unmount_closures,
                                          DOMAIN w.unmount_closures \ wk.unused),
         messages |-> ReceiveMessages(LeftInStore(w.messages), fired.sent),
         sent |-> fired.sent,
         signals |-> DrainedSignals(signals, fired.sigs),
         animators |-> FilteredAnimators(anims2),
         log |-> fired.log]

----------------------------------------------------------------------------
(* The declarative trees the driver applies and the identities it addresses *)

TreeKeyed ==
    Component("flex_box", Some("root"),
              <<Component("counter", Some("a"), <<>>), Component("animated", None, <<>>)>>)

\* the shared payloads of TreeOpener
SharedOuter == MapInsert(MapInsert(EmptyMap, "x", 1), "y", 1)
SharedInner == MapInsert(EmptyMap, "x", 2)

TreeOpener ==
    WithSharedProps(
      Component("vertical_box", None,
                <<WithSharedProps(
                    Component("opener", Some("o"), <<Component("counter", None, <<>>)>>),
                    SharedInner)>>),
      SharedOuter)

TreeTuple ==
    ComponentNamed("size_box", Some("s"),
                   [content |-> TupleNode(<<Component("counter", None, <<>>)>>)])

\* primitive containers nested directly, with no explicit keys
TreeNested ==
    FlexBoxNode(WidgetIdDefault,
                <<Item(Component("counter", None, <<>>)),
                  Item(FlexBoxNode(WidgetIdDefault,
                                   <<Item(Component("counter", None, <<>>))>>))>>)

Trees == {TreeKeyed, TreeOpener, TreeTuple, TreeNested}

IdKeyed == WidgetIdNew("counter", <<"root", "a">>)
IdGhost == WidgetIdNew("counter", <<"ghost">>)

IdOpener == WidgetIdNew("opener", <<"<*>", "<*>", "o">>)

\* the identities the driver sends messages to
ExternalIds == {IdKeyed, IdOpener}

\* the identities the driver writes the state of
WrittenIds == {IdKeyed}

\* the state payloads the driver writes: a count and an entry no widget writes
WrittenProps == {MapInsert(MapInsert(EmptyMap, "v", 1), "w", 1)}

----------------------------------------------------------------------------
(* The application                                                         *)

AppInit ==
    /\ tree = NoneNode
    /\ rendered_tree = NoUnit
    /\ states = EmptyMap
    /\ state_changes = EmptyMap
    /\ animators = EmptyMap
    /\ messages = EmptyMap
    /\ signals = <<>>
    /\ unmount_closures = EmptyMap
    /\ dirty = TRUE
    /\ render_changed = FALSE
    /\ last_invalidation_cause = CauseNone
    /\ change_notifier = FALSE
    /\ op = "new"
    /\ ret = FALSE
    /\ ran = FALSE
    /\ converted = FALSE
    /\ log = <<>>
    /\ used_ids = {}
    /\ pass_tree = NoneNode
    /\ walked = NoneNode
    /\ changed = FALSE
    /\ outbox = <<>>
    /\ dropped = EmptyMap
    /\ undelivered = EmptyMap
    /\ walk_stores = NoWalk
    /\ mounts = EmptyMap
    /\ idle = 0

\* no teleportation is stepped through while the application runs
TeleportOff ==
    /\ teleport_pc = "off"
    /\ root_in = NoUnit
    /\ t_root = NoUnit
    /\ t_count = 0
    /\ t_portals = <<>>
    /\ stripped = NoUnit
    /\ extracted = <<>>

\* what consume_change found when no call is in progress
TookNothing == [signal |-> FALSE, dirty0 |-> FALSE, during |-> FALSE]

\* no walk is in progress
NoFrames ==
    /\ frame_stack = <<>>
    /\ frame_node = NoneNode
    /\ frame_w = EmptyMap
    /\ frame_delta = 0
    /\ took = TookNothing

\* process_with_context is taken as one step
PassOff ==
    /\ pass_pc = "off"
    /\ NoFrames
    /\ unanswered = FALSE
    /\ given_during = FALSE
    /\ n_signal = 0
    /\ n_notified = 0

\* no function is called on its own
FnOff ==
    /\ fn_pc = "off"
    /\ fn_in = <<>>
    /\ fn_out = <<>>

\* no call of a state writer is tracked
WritesOff == write_calls = <<>>

Init == AppInit /\ TeleportOff /\ PassOff /\ FnOff /\ WritesOff

\* what an operation other than process leaves in the observations
Observed ==
    /\ op' = "driver"
    /\ ret' = FALSE
    /\ ran' = FALSE
    /\ converted' = FALSE
    /\ log' = <<>>
    /\ pass_tree' = NoneNode
    /\ walked' = NoneNode
    /\ changed' = FALSE
    /\ outbox' = <<>>
    /\ dropped' = EmptyMap
    /\ undelivered' = EmptyMap
    /\ walk_stores' = NoWalk
    /\ UNCHANGED <<used_ids, mounts>>

\* an operation of the application's driver other than process
Observe ==
    /\ Observed
    /\ UNCHANGED teleport_vars
    /\ UNCHANGED pass_vars
    /\ UNCHANGED fn_vars
    /\ UNCHANGED write_vars

Apply(t) ==
    /\ tree' = t
    /\ dirty' = TRUE
    /\ idle' = 0
    /\ Observe
    /\ UNCHANGED <<rendered_tree, states, state_changes, animators, messages, signals,
                   unmount_closures, render_changed, last_invalidation_cause,
                   change_notifier>>

MarkDirty ==
    /\ dirty' = TRUE
    /\ idle' = 0
    /\ Observe
    /\ UNCHANGED <<tree, rendered_tree, states, state_changes, animators, messages,
                   signals, unmount_closures, render_changed, last_invalidation_cause,
                   change_notifier>>

\* ChangeNotifier::change on a clone of the application's notifier
Change ==
    /\ change_notifier' = TRUE
    /\ idle' = 0
    /\ Observe
    /\ UNCHANGED <<tree, rendered_tree, states, state_changes, animators, messages,
                   signals, unmount_closures, dirty, render_changed,
                   last_invalidation_cause>>

\* the number of messages in a message store
RECURSIVE Queued(_)
Queued(store) ==
    IF DOMAIN store = {} THEN 0
    ELSE LET id == CHOOSE x \in DOMAIN store : TRUE
         IN  Len(store[id]) + Queued(MapRemove(store, id))

SendMessage(id, message) ==
    /\ Queued(messages) < MaxQueue
    /\ messages' = IF id \in DOMAIN messages
                     THEN [messages EXCEPT ![id] = Append(@, message)]
                   ELSE MapInsert(messages, id, <<message>>)
    /\ idle' = 0
    /\ Observe
    /\ UNCHANGED <<tree, rendered_tree, states, state_changes, animators, signals,
                   unmount_closures, dirty, render_changed, last_invalidation_cause,
                   change_notifier>>

\* a state_write that stages the replacement whatever the State store holds
WrittenAlways(states_, changes, id, data) == MapInsert(changes, id, data)

\* state_write: the pending store once the call has returned
WrittenChanges(states_, changes, id, data) ==
    IF id \in DOMAIN states_ THEN MapInsert(changes, id, data) ELSE changes

\* the closures the driver hands to state_mutate and state_mutate_cloned:
\* one counts up to MaxCount, one sets an entry no widget writes
Mutate(f, state) ==
    CASE f = "bump" -> MapInsert(state, "v", Min(StateValue(state) + 1, MaxCount))
      [] f = "mark" -> MapInsert(state, "w", 1)
      [] OTHER -> state

\* a state_mutate that calls f with the replacement pending for the
\* identity, when there is one
MutatedPending(states_, changes, id, f) ==
    IF id \in DOMAIN states_
      THEN MapInsert(changes, id,
                     Mutate(f, IF id \in DOMAIN changes THEN changes[id] ELSE states_[id]))
    ELSE changes

\* state_mutate: f is called with the stored state, and what it returns is
\* inserted into the pending store
MutatedChanges(states_, changes, id, f) ==
    IF id \in DOMAIN states_ THEN MapInsert(changes, id, Mutate(f, states_[id]))
    ELSE changes

\* state_mutate_cloned: f is called on a clone of the stored state, and the
\* clone is inserted into the pending store
ClonedChanges(states_, changes, id, f) ==
    IF id \in DOMAIN states_
      THEN LET state == states_[id] IN MapInsert(changes, id, Mutate(f, state))
    ELSE changes

\* what a state writer does to the application, given the pending store it
\* leaves
Staged(changes) ==
    /\ state_changes' = changes
    /\ idle' = 0
    /\ Observed
    /\ UNCHANGED <<tree, rendered_tree, states, animators, messages, signals,
                   unmount_closures, dirty, render_changed, last_invalidation_cause,
                   change_notifier>>

StateWrite(id, data) ==
    /\ Staged(WrittenChanges(states, state_changes, id, data))
    /\ UNCHANGED <<teleport_vars, pass_vars, fn_vars, write_vars>>

ConsumeSignals ==
    /\ signals' = <<>>
    /\ Observe
    /\ UNCHANGED <<tree, rendered_tree, states, state_changes, animators, messages,
                   unmount_closures, dirty, render_changed, last_invalidation_cause,
                   change_notifier, idle>>

\* the composite nodes mounted under each Identity that is in the State store
Mounts(mounts_, states_, log_) ==
    [id \in DOMAIN states_ |->
       (IF id \in DOMAIN mounts_ THEN mounts_[id] ELSE 0)
       + Cardinality({i \in 1..Len(log_) :
                        log_[i].ev = "invoke" /\ log_[i].mounted /\ log_[i].id = id})]

\* a publication that does not look at the outcome of the conversion
PublishedAlways(result, previous) == TeleportPortals(result.unit)

\* the end of process_with_context: the tree published for a conversion result
PublishedTree(result, previous) ==
    IF result.ok THEN TeleportPortals(result.unit) ELSE previous

\* the values of animations_delta_time a pass is run with: the elapsed time
\* is read only by the animators, so it is varied only when there are some
DeltaTimes(anims) == IF anims = EmptyMap THEN {0} ELSE 0..1

\* a gate that leaves the forced flag set when it finds nothing to do
EarlyReturnMarksDirty(dirty1) ==
    /\ last_invalidation_cause' = CauseNone
    /\ dirty' = TRUE
    /\ state_changes' = EmptyMap
    /\ messages' = EmptyMap

\* a gate that leaves the cause of the call before when it finds nothing to do
EarlyReturnKeepsCause(dirty1) ==
    /\ last_invalidation_cause' = last_invalidation_cause
    /\ dirty' = dirty1
    /\ state_changes' = EmptyMap
    /\ messages' = EmptyMap

\* what process_with_context has written when it returns at the gate:
\* the two stores were taken, and were empty
EarlyReturn(dirty1) ==
    /\ last_invalidation_cause' = CauseNone
    /\ dirty' = dirty1
    /\ state_changes' = EmptyMap
    /\ messages' = EmptyMap

\* process_with_context from the return of the walk to its end, for a pass
\* that started with the dirty flag `dirty1`
RunPass(dirty1, wk) ==
    \* result and f each have one value, computed once per step
    \E result \in {TryFromWidgetNode(wk.node)} :
    \E order \in Perms(FiringIds(wk)) :
    \E f \in {Finish(wk, order)} :
    \E cause \in Causes(dirty1, state_changes, messages, animators) :
        /\ last_invalidation_cause' = cause
        /\ dirty' = FALSE
        /\ states' = f.states
        /\ state_changes' = f.state_changes
        /\ unmount_closures' = f.unmount_closures
        /\ messages' = f.messages
        /\ signals' = f.signals
        /\ animators' = f.animators
        /\ rendered_tree' = PublishedTree(result, rendered_tree)
        /\ ret' = result.ok
        /\ ran' = TRUE
        /\ converted' = result.ok
        /\ log' = f.log
        /\ used_ids' = wk.w.used_ids
        /\ pass_tree' = tree
        /\ walked' = wk.node
        /\ changed' = (rendered_tree' # rendered_tree)
        /\ outbox' = f.sent
        /\ dropped' = MapRestrict(wk.w.animators,
                                  DOMAIN wk.w.animators \ DOMAIN f.animators)
        /\ undelivered' = wk.w.messages
        /\ walk_stores' = wk.stores
        /\ mounts' = Mounts(mounts, f.states, f.log)
        /\ idle' = 0
        /\ UNCHANGED tree

\* what process_with_context has observably done when it returns at the gate
Returned(dirty1) ==
    /\ EarlyReturn(dirty1)
    /\ ret' = FALSE
    /\ ran' = FALSE
    /\ converted' = FALSE
    /\ log' = <<>>
    /\ idle' = Min(idle + 1, 2)
    /\ pass_tree' = NoneNode
    /\ walked' = NoneNode
    /\ changed' = FALSE
    /\ outbox' = <<>>
    /\ dropped' = EmptyMap
    /\ undelivered' = EmptyMap
    /\ walk_stores' = NoWalk
    /\ UNCHANGED <<tree, rendered_tree, states, animators, signals,
                   unmount_closures, used_ids, mounts>>

\* process_with_context, entered with the dirty flag as the caller left it:
\* what it does to the application
ProcessCall(name, dirty0) ==
    LET dirty1 == dirty0 \/ change_notifier
    IN  /\ op' = name
        /\ change_notifier' = FALSE
        /\ render_changed' = FALSE
        /\ IF ~ShouldRun(dirty1, state_changes, messages, animators)
             THEN Returned(dirty1)
           ELSE \* wk has one value, computed once per step
                \E delta \in DeltaTimes(animators) :
                \E wk \in {Walk(delta)} : RunPass(dirty1, wk)

ProcessWithContext(name, dirty0) ==
    /\ ProcessCall(name, dirty0)
    /\ UNCHANGED teleport_vars
    /\ UNCHANGED pass_vars
    /\ UNCHANGED fn_vars
    /\ UNCHANGED write_vars

Process == ProcessWithContext("process", dirty)

ForcedProcess == ProcessWithContext("forced_process", TRUE)

Next ==
    \/ \E t \in Trees : Apply(t)
    \/ MarkDirty
    \/ Change
    \/ \E id \in ExternalIds : SendMessage(id, "m")
    \/ \E id \in WrittenIds, data \in WrittenProps : StateWrite(id, data)
    \/ ConsumeSignals
    \/ Process
    \/ ForcedProcess

Spec == Init /\ [][Next]_vars

----------------------------------------------------------------------------
(* Properties                                                              *)

ProcessCalls == {"process", "forced_process"}

\* the four conditions of the pass gate in the state a call starts from
GateHolds ==
    \/ dirty
    \/ DOMAIN state_changes # {}
    \/ DOMAIN messages # {}
    \/ AnimatingIds(animators) # {}

\* C1 as stated: a process() call runs a pass if and only if the forced flag
\* is set, a state replacement is pending, a message is pending or an
\* animation is in progress when it is called; otherwise it returns false.
C1_Original ==
    [][op' = "process" => /\ ran' <=> GateHolds
                          /\ ~GateHolds => ~ret']_vars

\* C1 amended: a process() call runs a pass if and only if one of the four
\* conditions holds or a change was signalled through the ChangeNotifier since
\* the last call; otherwise it returns false without running a pass.
C1_PassGate ==
    [][op' = "process" => /\ ran' <=> (GateHolds \/ change_notifier)
                          /\ ~(GateHolds \/ change_notifier) => ~ret']_vars

\* a process() call ran a pass only because an animation was in progress
C1_Witness ==
    /\ op = "process"
    /\ ran
    /\ last_invalidation_cause.kind = "AnimationInProgress"

\* C2: once a process() call found nothing to do, every later process() call
\* returns false too, as long as no apply, mark_dirty, change notification,
\* state write or message send came in between.
C2_IdleStaysIdle ==
    [][(idle >= 1 /\ op' = "process") => (~ret' /\ ~ran' /\ idle' = 2)]_vars

\* a second process() call in a row found nothing to do
C2_Witness == op = "process" /\ idle = 2 /\ ~ret

\* the forced flag as the pass sees it
EffectiveDirty == dirty \/ change_notifier \/ op' = "forced_process"

\* C3 as stated: the cause follows the priority
\* Forced > AnimationInProgress > MessageReceived > StateChange.
C3_Original ==
    [][ran' =>
         IF EffectiveDirty THEN last_invalidation_cause' = CauseForced
         ELSE IF AnimatingIds(animators) # {}
           THEN last_invalidation_cause' \in
                  {AnimationInProgress(id) : id \in AnimatingIds(animators)}
         ELSE IF DOMAIN messages # {}
           THEN last_invalidation_cause' \in
                  {MessageReceived(id) : id \in DOMAIN messages}
         ELSE last_invalidation_cause' \in
                  {StateChange(id) : id \in DOMAIN state_changes}]_vars

\* C3 amended: the cause follows the priority
\* StateChange > MessageReceived > AnimationInProgress > Forced: it is
\* StateChange(id) whenever a state replacement was pending, else
\* MessageReceived(id) if a message was pending, else AnimationInProgress(id)
\* if an animation was in progress, else Forced.
C3_CausePriority ==
    [][ran' =>
         IF DOMAIN state_changes # {}
           THEN last_invalidation_cause' \in
                  {StateChange(id) : id \in DOMAIN state_changes}
         ELSE IF DOMAIN messages # {}
           THEN last_invalidation_cause' \in
                  {MessageReceived(id) : id \in DOMAIN messages}
         ELSE IF AnimatingIds(animators) # {}
           THEN last_invalidation_cause' \in
                  {AnimationInProgress(id) : id \in AnimatingIds(animators)}
         ELSE last_invalidation_cause' = CauseForced]_vars

\* a forced pass ran with a message pending: two causes held at once
C3_Witness ==
    /\ op = "forced_process"
    /\ ran
    /\ last_invalidation_cause.kind = "MessageReceived"

\* C4 as stated: a pass clears the forced flag, and after a process call the
\* render-changed flag is true exactly when a pass ran and its conversion
\* succeeded.
C4_Claim ==
    op \in ProcessCalls => /\ ran => ~dirty
                           /\ render_changed <=> (ran /\ converted)

\* an unresolved composite is left somewhere in a walked node
RECURSIVE HasComponent(_)
HasComponent(node) ==
    CASE node.kind = "Component" -> TRUE
      [] node.kind = "Tuple" ->
           \E i \in 1..Len(node.nodes) : HasComponent(node.nodes[i])
      [] node.kind = "Unit" ->
           CASE node.unit \in SingleSlot -> HasComponent(node.slot)
             [] node.unit = "PortalBox" -> HasComponent(node.slot.slot)
             [] node.unit \in MultiSlot ->
                  \E i \in 1..Len(node.items) : HasComponent(node.items[i].slot)
             [] OTHER -> FALSE
      [] OTHER -> FALSE

\* C5: when the walk of a pass leaves an unresolved composite in its result,
\* the process call returns false and the published tree stays the one
\* published before the pass.
C5_FailedConversionKeepsTree ==
    (op \in ProcessCalls /\ ran /\ HasComponent(walked)) =>
        (~ret /\ ~converted /\ ~changed)

\* a pass failed to convert while a tree of an earlier pass was published
C5_Witness ==
    /\ op \in ProcessCalls
    /\ ran
    /\ HasComponent(walked)
    /\ rendered_tree # NoUnit

\* C6 as stated: a process call returns true exactly when the published tree
\* after the call differs from the one before it.
C6_Original == op \in ProcessCalls => (ret <=> changed)

\* C6 amended: a process call returns true exactly when a pass ran and the
\* conversion of its result succeeded; the published tree is then the pass's
\* result, which may equal the tree published before; when the call returns
\* false the published tree is unchanged.
C6_ReturnValue ==
    op \in ProcessCalls =>
        /\ ret <=> (ran /\ ~HasComponent(walked))
        /\ ret => rendered_tree = TeleportPortals(TryFromWidgetNode(walked).unit)
        /\ ~ret => ~changed

\* a process call returned true and published a tree equal to the previous one
C6_Witness == op \in ProcessCalls /\ ret /\ ~changed /\ rendered_tree # NoUnit

\* C7: apply and mark_dirty set the forced flag, which only a pass clears, so
\* the next process() runs a pass, on the tree as apply left it; and
\* forced_process() runs a pass on every call.
C7_ForcedPass ==
    [][/\ (MarkDirty \/ \E t \in Trees : Apply(t) /\ tree' = t) => dirty'
       /\ (dirty /\ ~dirty') => ran'
       /\ (dirty /\ op' = "process") => (ran' /\ pass_tree' = tree)
       /\ op' = "forced_process" => (ran' /\ pass_tree' = tree)]_vars

\* a process() call ran a pass on an applied tree with nothing else pending
C7_Witness ==
    /\ op = "process"
    /\ ran
    /\ pass_tree = TreeOpener
    /\ last_invalidation_cause = CauseForced

LogIndices == 1..Len(log)

\* C8 as stated: in the second of two consecutive passes over the same tree
\* every composite has the Identity it had in the first, and every invoked
\* composite is treated as a change.
C8_Original ==
    [][(op \in ProcessCalls /\ ran /\ ran' /\ pass_tree = tree) =>
         /\ used_ids' = used_ids
         /\ \A i \in 1..Len(log') : ~log'[i].mounted]_vars

\* C8 amended: in every pass, and so in the second of two consecutive passes
\* over a fixed tree, a composite whose Identity was used by the previous pass
\* is treated as a change and no mount callback fires for it; a composite is
\* mounted only under an Identity the previous pass did not use.
C8_StableIdentity ==
    [][ran' => \A i \in 1..Len(log') :
                 /\ log'[i].id \in used_ids => ~log'[i].mounted
                 /\ log'[i].ev = "mount" => log'[i].id \notin used_ids]_vars

\* the second of two consecutive passes treated a composite as a change and
\* mounted another one
C8_Witness ==
    /\ op \in ProcessCalls
    /\ ran
    /\ \E i \in LogIndices : log[i].ev = "invoke" /\ ~log[i].mounted
    /\ \E i \in LogIndices : log[i].ev = "mount"

\* the identities whose unmount closures fired in log_, and how often
UnmountsOf(log_, id) == {i \in 1..Len(log_) : log_[i].ev = "unmount" /\ log_[i].id = id}

\* the state the orchestrator last knew for an identity before a pass
LastKnownState(id) ==
    IF id \in DOMAIN state_changes THEN state_changes[id] ELSE states[id]

\* C9: a teardown closure fires only in a pass in which its Identity is
\* not used and which follows a pass that used it, never for an Identity
\* that was not mounted, and it fires exactly once for every mount of the
\* Identity it was registered under.
C9_Claim ==
    [][ran' =>
         /\ \A i \in 1..Len(log') :
              log'[i].ev = "unmount" =>
                /\ log'[i].id \in used_ids
                /\ log'[i].id \notin used_ids'
                /\ log'[i].id \in DOMAIN mounts
                /\ log'[i].id \notin DOMAIN unmount_closures'
         /\ \A id \in DOMAIN unmount_closures :
              Cardinality(UnmountsOf(log', id)) =
                IF id \in used_ids' THEN 0
                ELSE mounts[id] * Len(unmount_closures[id])]_vars

\* what does hold: the closures stored for an Identity fire once each when
\* the Identity is pruned, however many nodes were mounted under it
TeardownOncePerIdentity ==
    [][ran' =>
         \A id \in DOMAIN unmount_closures :
           Cardinality(UnmountsOf(log', id)) =
             IF id \in used_ids' THEN 0 ELSE Len(unmount_closures[id])]_vars

\* a pass fired the teardown closure of an identity it no longer used
C9_Witness ==
    /\ op \in ProcessCalls
    /\ ran
    /\ \E i \in LogIndices : log[i].ev = "unmount" /\ log[i].id \notin used_ids

\* C10: an identity used by one pass and not by the next has its teardown
\* closures called in that next pass with the state last known for it, and
\* has neither a State entry nor an Animation entry after it.
C10_Pruning ==
    [][ran' => \A id \in used_ids \ used_ids' :
                 /\ id \notin DOMAIN states'
                 /\ id \notin DOMAIN animators'
                 /\ id \in DOMAIN unmount_closures =>
                      \E i \in UnmountsOf(log', id) :
                        log'[i].state = LastKnownState(id)]_vars

\* a pass called a teardown closure with a state that had been counted up
C10_Witness ==
    /\ op \in ProcessCalls
    /\ ran
    /\ \E i \in LogIndices : /\ log[i].ev = "unmount"
                             /\ StateValue(log[i].state) >= 1
                             /\ log[i].id \notin DOMAIN states

\* C11 as stated: a pass keeps the animation entry of an Identity it did not
\* use while the animation is still in progress.
C11_Original ==
    op \in ProcessCalls =>
        \A id \in DOMAIN dropped : ~(id \notin used_ids /\ InProgress(dropped[id]))

\* C11 amended: a pass removes the animation entry of every Identity it did
\* not use, whether or not the animation is still in progress: after a pass
\* every animation entry belongs to an Identity the pass used.
C11_UnusedAnimatorRemoved ==
    [][ran' => /\ DOMAIN animators' \subseteq used_ids'
               /\ \A id \in DOMAIN animators : id \notin used_ids' =>
                                                 id \notin DOMAIN animators']_vars

\* a pass removed the entry of a running animation of an Identity it did not use
C11_Witness ==
    /\ op \in ProcessCalls
    /\ ran
    /\ \E id \in DOMAIN dropped : id \notin used_ids /\ InProgress(dropped[id])

\* C12 as stated: a pass removes an animation entry only when the animation
\* has completed and its Identity was not used in the pass.
C12_Original ==
    op \in ProcessCalls =>
        \A id \in DOMAIN dropped : id \notin used_ids /\ ~InProgress(dropped[id])

\* C12 amended: a pass removes an animation entry when either condition
\* holds: the Identity was not used in the pass, or none of its sub-animations
\* is in progress any more; the entries present after a pass are exactly
\* those of used Identities with a sub-animation in progress.
C12_AnimatorRemoval ==
    op \in ProcessCalls =>
        /\ \A id \in DOMAIN dropped : id \notin used_ids \/ ~InProgress(dropped[id])
        /\ ran => \A id \in DOMAIN animators : id \in used_ids /\ InProgress(animators[id])
        /\ DOMAIN dropped \cap DOMAIN animators = {}

\* a pass removed the completed animation of an Identity it used
C12_Witness ==
    /\ op \in ProcessCalls
    /\ ran
    /\ \E id \in DOMAIN dropped : id \in used_ids /\ ~InProgress(dropped[id])

(***************************************************************************)
(* Messages left in the store by a pass                                    *)

\* the messages of a sequence of <<id, message>> that are for `id`, in order
Inbox(sent, id) ==
    LET mine == SelectSeq(sent, LAMBDA e : e[1] = id)
    IN  [i \in 1..Len(mine) |-> mine[i][2]]

\* the identities messages are addressed to
Addressees == ExternalIds \cup {IdOpened}

\* C13 as the specification states it: a message queued for an Identity whose
\* composite the pass did not invoke is still in the message store after the
\* pass.
C13_Original ==
    op \in ProcessCalls /\ ran =>
        \A id \in DOMAIN undelivered :
            /\ id \in DOMAIN messages
            /\ Len(messages[id]) >= Len(undelivered[id])
            /\ SubSeq(messages[id], 1, Len(undelivered[id])) = undelivered[id]

\* C13: a pass that runs leaves in the message store exactly the messages sent
\* during that pass, per Identity in sending order; a message that was queued
\* before the pass for an Identity whose composite the pass did not invoke is
\* in the store no more, so no later pass delivers it.
C13_StoreHoldsOnlySent ==
    [][ran' =>
         /\ \A id \in Addressees \cup DOMAIN messages \cup DOMAIN messages' :
              IF Inbox(outbox', id) = <<>> THEN id \notin DOMAIN messages'
              ELSE id \in DOMAIN messages' /\ messages'[id] = Inbox(outbox', id)
         /\ \A id \in DOMAIN messages :
              id \notin used_ids' => /\ id \in DOMAIN undelivered'
                                     /\ undelivered'[id] = messages[id]]_vars

\* a pass dropped a message queued for an Identity it did not invoke
C13_Witness ==
    /\ op \in ProcessCalls
    /\ ran
    /\ \E id \in DOMAIN undelivered :
         id \notin used_ids /\ undelivered[id] # <<>> /\ id \notin DOMAIN messages

(***************************************************************************)
(* Delivery of messages                                                    *)

\* the invocations of the composite of `id` in a log, in the order of the walk
Invocations(events, id) == SelectSeq(events, LAMBDA e : e.ev = "invoke" /\ e.id = id)

\* C14: a message sent to an Identity is appended to the list queued for it;
\* the first invocation of that Identity's composite in a pass receives the
\* whole list, in sending order; any further invocation in the pass receives
\* none; and after the pass the store holds for that Identity only what was
\* sent during the pass, so no message is handed out twice.
C14_DeliveredOnceInOrder ==
    [][/\ ran' =>
            \A id \in used_ids' :
                LET invs == Invocations(log', id)
                IN  /\ invs # <<>>
                    /\ invs[1].messages = MessagesList(messages, id)
                    /\ \A i \in 2..Len(invs) : invs[i].messages = <<>>
                    /\ MessagesList(messages', id) = Inbox(outbox', id)
       /\ op' = "driver" =>
            \A id \in DOMAIN messages' :
                \/ MessagesList(messages', id) = MessagesList(messages, id)
                \/ MessagesList(messages', id) = Append(MessagesList(messages, id), "m")
      ]_vars

\* a composite was handed the two messages a widget sent it in the pass
\* before, in the order they were sent, and they are in the store no more
C14_Witness ==
    /\ op \in ProcessCalls
    /\ ran
    /\ \E i \in LogIndices :
         /\ i <= Len(log)
         /\ log[i].ev = "invoke"
         /\ log[i].messages = <<"first", "second">>
         /\ log[i].id \notin DOMAIN messages

(***************************************************************************)
(* State replacements                                                      *)

\* the state a pass shows the composite of `id`: the replacement pending at
\* the start of the pass, else the stored state, else the default of a mount
StartState(id) ==
    IF id \in DOMAIN state_changes THEN state_changes[id]
    ELSE IF id \in DOMAIN states THEN states[id] ELSE DefaultProps

\* the state replacements a log shows for `id`, in the order of their drain
WritesOf(events, id) == SelectSeq(events, LAMBDA e : e.ev = "write" /\ e.id = id)

\* C15: every composite and callback of a pass sees the state as it was
\* when the pass started (a replacement pending then in place of the whole
\* stored state), never a replacement emitted during the pass; the emitted
\* replacements are in the pending store after the pass, the last one per
\* Identity, and not in the State store; and a process call that finds a
\* pending replacement runs a pass.
C15_StagedReplacement ==
    [][/\ ran' =>
            /\ \A i \in 1..Len(log') :
                 log'[i].ev \in {"invoke", "mount", "change"} =>
                     log'[i].state = StartState(log'[i].id)
            /\ \A id \in DOMAIN states' : states'[id] = StartState(id)
            /\ \A id \in used_ids' \cup DOMAIN state_changes' :
                 LET writes == WritesOf(log', id)
                 IN  IF writes = <<>> THEN id \notin DOMAIN state_changes'
                     ELSE /\ id \in DOMAIN state_changes'
                          /\ state_changes'[id] = writes[Len(writes)].state
       /\ (op' \in ProcessCalls /\ state_changes # EmptyMap) =>
            (ran' /\ \A id \in DOMAIN state_changes \cap used_ids' :
                        states'[id] = state_changes[id])
      ]_vars

\* a pass ran because of a replacement a counter emitted in the pass before,
\* and showed that counter the replacement without the entry "w" of the state
\* it replaced
C15_Witness ==
    /\ op \in ProcessCalls
    /\ ran
    /\ last_invalidation_cause = StateChange(IdKeyed)
    /\ \E i \in LogIndices :
         /\ log[i].ev = "invoke"
         /\ log[i].id = IdKeyed
         /\ log[i].state = MapInsert(EmptyMap, "v", 2)
    /\ IdKeyed \in DOMAIN states
    /\ states[IdKeyed] = MapInsert(EmptyMap, "v", 2)

(***************************************************************************)
(* When the effects of a pass reach the stores                             *)

\* m1 holds every entry of m2
Holds(m1, m2) == DOMAIN m2 \subseteq DOMAIN m1 /\ \A id \in DOMAIN m2 : m1[id] = m2[id]

\* C16 as the specification states it: none of the long-lived stores is
\* written during the walk.
C16_Original ==
    op \in ProcessCalls /\ ran => walk_stores.after = walk_stores.before

\* C16: a composite invoked in a pass is handed messages from the store as it
\* was when the pass started, never one sent during the pass, and every
\* message sent during the pass is in the store after it; state replacements,
\* teardown registrations and animation updates are written to their stores
\* during the walk, as each composite returns: when the walk returns the
\* pending store holds the last replacement of every Identity that emitted
\* one, and the rest of the pass adds no entry to these three stores.
C16_EffectsReachStores ==
    [][ran' =>
         /\ \A i \in 1..Len(log') :
              log'[i].ev = "invoke" =>
                  log'[i].messages \in {MessagesList(messages, log'[i].id), <<>>}
         /\ \A k \in 1..Len(outbox') :
              /\ outbox'[k][1] \in DOMAIN messages'
              /\ \E n \in 1..Len(messages'[outbox'[k][1]]) :
                   messages'[outbox'[k][1]][n] = outbox'[k][2]
         /\ \A id \in used_ids' :
              WritesOf(log', id) # <<>> =>
                  /\ id \in DOMAIN walk_stores'.after.state_changes
                  /\ walk_stores'.after.state_changes[id]
                       = WritesOf(log', id)[Len(WritesOf(log', id))].state
         /\ state_changes' = walk_stores'.after.state_changes
         /\ Holds(walk_stores'.after.animators, animators')
         /\ Holds(walk_stores'.after.unmount_closures, unmount_closures')
      ]_vars

\* in one walk a composite sent two messages to a composite invoked after it,
\* which was handed none; both are in the store after the pass
C16_Witness ==
    /\ op \in ProcessCalls
    /\ ran
    /\ \E i, j \in LogIndices :
         /\ i < j
         /\ log[i].ev = "change" /\ log[i].id = IdOpener /\ log[i].messages # <<>>
         /\ log[j].ev = "invoke" /\ log[j].id = IdOpened /\ log[j].messages = <<>>
    /\ IdOpened \in DOMAIN messages
    /\ messages[IdOpened] = <<"first", "second">>

(***************************************************************************)
(* The signal list                                                         *)

\* the signals the closures of a log emitted, in the order they were called
RECURSIVE SignalsOf(_)
SignalsOf(events) ==
    IF events = <<>> THEN <<>>
    ELSE LET e == Head(events)
         IN  (CASE e.closure = "signal" -> <<<<e.id, "mounted">>>>
                [] e.closure = "signal_state" -> <<<<e.id, StateValue(e.state)>>>>
                [] OTHER -> <<>>)
             \o SignalsOf(Tail(events))

\* C17: after a pass that runs the signal list holds the signals the mount,
\* change and teardown closures of that pass emitted, in the order they
\* emitted them, whatever the list held before; a process call that runs no
\* pass leaves the list as it was.
C17_SignalsOfThePass ==
    [][/\ ran' => signals' = SignalsOf(log')
       /\ (op' \in ProcessCalls /\ ~ran') => signals' = signals]_vars

\* a pass mounted a composite that signalled and fired a teardown closure
\* that signalled, and both signals are in the list
C17_Witness ==
    /\ op \in ProcessCalls
    /\ ran
    /\ \E i, j \in LogIndices :
         /\ log[i].ev = "mount" /\ log[i].closure = "signal"
         /\ log[j].ev = "unmount" /\ log[j].closure = "signal_state"
    /\ Len(signals) >= 2
    /\ signals = SignalsOf(log)

(***************************************************************************)
(* Shared payloads                                                         *)

\* the payload of an optional payload, empty when there is none
Payload(option) == IF option = None THEN EmptyMap ELSE option[1]

\* the payload TreeOpener's opener and the composite in its slot are to see
SharedBelowInner == MapInsert(MapInsert(EmptyMap, "x", 2), "y", 1)

\* the identities of TreeOpener's vertical_box and of the flex_box it expands to
IdColumn == WidgetIdNew("vertical_box", <<"<*>">>)
IdColumnBox == WidgetIdNew("flex_box", <<"<*>", "<*>">>)

\* C18: the shared payload a composite sees has the keys of the payload its
\* parent supplied and of its own; a key of its own has its own value, any
\* other key the parent's value, and with neither payload it is empty.  Over
\* TreeOpener, whose vertical_box carries x=1, y=1 and whose opener carries
\* x=2: the vertical_box and the flex_box it expands to see x=1, y=1; the
\* opener below the FlexBox unit and the counter in the opener's slot see
\* x=2, y=1.
C18_SharedPayload ==
    [][ran' =>
         \A i \in 1..Len(log') :
           log'[i].ev = "invoke" =>
             LET e == log'[i]
                 mine == Payload(e.own)
                 parents == Payload(e.master)
             IN  /\ DOMAIN e.shared_props = DOMAIN mine \cup DOMAIN parents
                 /\ \A k \in DOMAIN mine : e.shared_props[k] = mine[k]
                 /\ \A k \in DOMAIN parents \ DOMAIN mine : e.shared_props[k] = parents[k]
                 /\ e.id \in {IdColumn, IdColumnBox} =>
                      e.shared_props = IF tree = TreeOpener THEN SharedOuter ELSE EmptyMap
                 /\ e.id = IdColumnBox /\ tree = TreeOpener => e.master = Some(SharedOuter)
                 /\ e.id \in {IdOpener, IdOpened} =>
                      /\ e.master = Some(IF e.id = IdOpener THEN SharedOuter
                                         ELSE SharedBelowInner)
                      /\ e.shared_props = SharedBelowInner
                 /\ tree # TreeOpener => e.shared_props = EmptyMap
      ]_vars

\* a pass invoked the counter in the slot of TreeOpener's opener, which has
\* no shared payload of its own, with the opener's merged payload
C18_Witness ==
    /\ op \in ProcessCalls
    /\ ran
    /\ \E i \in LogIndices :
         /\ log[i].ev = "invoke"
         /\ log[i].id = IdOpened
         /\ log[i].own = None
         /\ log[i].shared_props = SharedBelowInner

----------------------------------------------------------------------------
(* teleport_portals, stepped through on frozen trees that hold portals     *)

MaxItems == 3       \* most items the root box of an input tree holds

IdRoot == WidgetIdNew("box", <<"root">>)
IdDeep == WidgetIdNew("size_box", <<"root", "deep">>)
IdWrap == WidgetIdNew("size_box", <<"root", "wrap">>)
IdLost == WidgetIdNew("box", <<"lost">>)
IdShelf == WidgetIdNew("box", <<"root", "shelf">>)
IdNook == WidgetIdNew("size_box", <<"root", "shelf", "nook">>)
IdCarrier == WidgetIdNew("size_box", <<"carrier">>)
IdSelf == WidgetIdNew("size_box", <<"self">>)

TextBox(text) == [unit |-> "TextBox", id |-> WidgetIdNew("text", <<"t">>), text |-> text]

SizeBox(id, slot) == [unit |-> "SizeBox", id |-> id, slot |-> slot]

\* PortalBoxSlot::Slot
BareSlot(unit) == [kind |-> "Slot", slot |-> unit, layout |-> 0]

\* PortalBoxSlot::ContentItem, with a layout that is not the default one
ContentItemSlot(unit) == [kind |-> "ContentItem", slot |-> unit, layout |-> 1]

PortalBox(owner, slot) ==
    [unit |-> "PortalBox", id |-> WidgetIdNew("portal", <<"p">>), owner |-> owner,
     slot |-> slot]

\* a portal owned by a whose payload is a SizeBox that holds a portal owned by b
Nested(a, b, text) ==
    PortalBox(a, BareSlot(SizeBox(IdCarrier, PortalBox(b, BareSlot(TextBox(text))))))

\* a ContentBox below the root that holds a SizeBox
Shelf ==
    [unit |-> "ContentBox", id |-> IdShelf, items |-> <<Item(SizeBox(IdNook, NoUnit))>>]

\* what the items of an input tree's root hold
Pieces ==
    {TextBox(0),
     PortalBox(IdRoot, BareSlot(TextBox(1))),
     SizeBox(IdDeep, NoUnit),
     PortalBox(IdDeep, BareSlot(TextBox(2))),
     SizeBox(IdWrap, PortalBox(IdRoot, ContentItemSlot(TextBox(3)))),
     PortalBox(IdRoot, BareSlot(PortalBox(IdDeep, BareSlot(TextBox(4))))),
     PortalBox(IdLost, BareSlot(TextBox(5))),
     PortalBox(IdRoot, BareSlot(SizeBox(IdDeep, NoUnit))),
     Shelf,
     Nested(IdRoot, IdDeep, 6),
     Nested(IdShelf, IdNook, 7),
     Nested(IdRoot, IdRoot, 8),
     Nested(IdRoot, IdCarrier, 9),
     PortalBox(IdSelf, BareSlot(SizeBox(IdSelf, NoUnit)))}

\* the sequences of at most n pieces
RECURSIVE PieceSeqs(_)
PieceSeqs(n) ==
    IF n = 0 THEN {<<>>}
    ELSE PieceSeqs(n - 1)
         \cup {Append(q, piece) : q \in {q \in PieceSeqs(n - 1) : Len(q) = n - 1},
                                  piece \in Pieces}

\* the frozen trees teleport_portals is called with
TeleportInputs ==
    {[unit |-> kind, id |-> IdRoot, items |-> [i \in 1..Len(q) |-> Item(q[i])]] :
       kind \in {"ContentBox", "FlexBox"}, q \in PieceSeqs(MaxItems)}
    \cup {SizeBox(IdRoot, piece) : piece \in Pieces}

TeleportInit ==
    /\ AppInit
    /\ PassOff
    /\ FnOff
    /\ WritesOff
    /\ teleport_pc = "start"
    /\ root_in \in TeleportInputs
    /\ t_root = root_in
    /\ t_count = 0
    /\ t_portals = <<>>
    /\ stripped = NoUnit
    /\ extracted = <<>>

\* let count = Self::estimate_portals(&root); if count == 0 { return root; }
Estimate ==
    /\ teleport_pc = "start"
    /\ t_count' = EstimatePortals(t_root)
    /\ teleport_pc' = IF t_count' = 0 THEN "done" ELSE "estimated"
    /\ UNCHANGED <<root_in, t_root, t_portals, stripped, extracted>>
    /\ UNCHANGED app_vars
    /\ UNCHANGED pass_vars
    /\ UNCHANGED fn_vars
    /\ UNCHANGED write_vars

\* Self::consume_portals(&mut root, &mut portals)
Consume ==
    /\ teleport_pc = "estimated"
    /\ LET c == ConsumePortals(t_root, <<>>)
       IN  /\ t_root' = c.unit
           /\ t_portals' = c.bucket
           /\ stripped' = c.unit
           /\ extracted' = c.bucket
    /\ teleport_pc' = "consumed"
    /\ UNCHANGED <<root_in, t_count>>
    /\ UNCHANGED app_vars
    /\ UNCHANGED pass_vars
    /\ UNCHANGED fn_vars
    /\ UNCHANGED write_vars

\* Self::inject_portals(&mut root, &mut portals); root
Inject ==
    /\ teleport_pc = "consumed"
    /\ LET r == InjectPortals(t_root, t_portals)
       IN  /\ t_root' = r.unit
           /\ t_portals' = r.portals
    /\ teleport_pc' = "done"
    /\ UNCHANGED <<root_in, t_count, stripped, extracted>>
    /\ UNCHANGED app_vars
    /\ UNCHANGED pass_vars
    /\ UNCHANGED fn_vars
    /\ UNCHANGED write_vars

TeleportNext ==
    \/ Estimate
    \/ Consume
    \/ Inject

TeleportSpec == TeleportInit /\ [][TeleportNext]_vars

\* the steps compose to the function the application calls
TeleportIsStepped == teleport_pc = "done" => t_root = TeleportPortals(root_in)

(***************************************************************************)
(* Injection                                                               *)

\* the identities of the nodes of a frozen tree that have a slot or items
RECURSIVE SlotBearingIds(_)
RECURSIVE SlotBearingIdsItems(_)
SlotBearingIds(unit) ==
    CASE unit.unit \in SingleSlot -> {unit.id} \cup SlotBearingIds(unit.slot)
      [] unit.unit \in MultiSlot -> {unit.id} \cup SlotBearingIdsItems(unit.items)
      [] unit.unit = "PortalBox" -> SlotBearingIds(unit.slot.slot)
      [] OTHER -> {}

SlotBearingIdsItems(items) ==
    IF items = <<>> THEN {}
    ELSE SlotBearingIds(Head(items).slot) \cup SlotBearingIdsItems(Tail(items))

\* C19 as the specification states it, in what it needs at the least: once
\* teleportation is done the holding list holds no portal whose owner is the
\* Identity of a slot-bearing node of the stripped tree, each such portal
\* having been taken from the list and grafted.
C19_Claim ==
    teleport_pc = "done" /\ t_count > 0 =>
        \A k \in 1..Len(t_portals) : t_portals[k][1] \notin SlotBearingIds(stripped)

\* what the injection does do: it leaves no portal owned by the root in the
\* list, and when no portal is owned by the root it grafts nothing at all
InjectionFromRoot ==
    teleport_pc = "done" /\ t_count > 0 =>
        /\ \A k \in 1..Len(t_portals) : t_portals[k][1] # IdRoot
        /\ (\A k \in 1..Len(extracted) : extracted[k][1] # IdRoot) =>
               (t_root = stripped /\ t_portals = extracted)

(***************************************************************************)
(* Extraction                                                              *)

\* a frozen tree holds a Portal node
RECURSIVE HasPortal(_)
HasPortal(unit) ==
    CASE unit.unit \in SingleSlot -> HasPortal(unit.slot)
      [] unit.unit \in MultiSlot ->
           \E i \in 1..Len(unit.items) : HasPortal(unit.items[i].slot)
      [] unit.unit = "PortalBox" -> TRUE
      [] OTHER -> FALSE

\* the Portal nodes of a frozen tree that hold a payload or name an owner
RECURSIVE LoadedPortals(_)
LoadedPortals(unit) ==
    CASE unit.unit \in SingleSlot -> LoadedPortals(unit.slot)
      [] unit.unit \in MultiSlot ->
           UNION {LoadedPortals(unit.items[i].slot) : i \in 1..Len(unit.items)}
      [] unit.unit = "PortalBox" ->
           (IF unit = PortalBoxDefault THEN {} ELSE {unit})
           \cup LoadedPortals(unit.slot.slot)
      [] OTHER -> {}

\* how many Portal nodes of a frozen tree lie in no other portal's payload
RECURSIVE OuterPortals(_)
RECURSIVE OuterPortalsItems(_)
OuterPortals(unit) ==
    CASE unit.unit \in SingleSlot -> OuterPortals(unit.slot)
      [] unit.unit \in MultiSlot -> OuterPortalsItems(unit.items)
      [] unit.unit = "PortalBox" -> 1
      [] OTHER -> 0

OuterPortalsItems(items) ==
    IF items = <<>> THEN 0
    ELSE OuterPortals(Head(items).slot) + OuterPortalsItems(Tail(items))

RECURSIVE HeldBy(_, _)
HeldBy(unit, id) ==
    CASE unit.unit \in SingleSlot ->
           (IF unit.id = id THEN {unit.slot} ELSE {}) \cup HeldBy(unit.slot, id)
      [] unit.unit \in MultiSlot ->
           (IF unit.id = id THEN {unit.items[i].slot : i \in 1..Len(unit.items)} ELSE {})
           \cup UNION {HeldBy(unit.items[i].slot, id) : i \in 1..Len(unit.items)}
      [] unit.unit = "PortalBox" -> HeldBy(unit.slot.slot, id)
      [] OTHER -> {}

\* a unit is a portal made by Nested
IsNested(unit) ==
    /\ unit.unit = "PortalBox"
    /\ unit.slot.slot.unit = "SizeBox"
    /\ unit.slot.slot.id = IdCarrier

\* the nested portals among the items of the root of a frozen tree
NestedIn(unit) ==
    IF unit.unit \in MultiSlot
      THEN {unit.items[i].slot : i \in {i \in 1..Len(unit.items) : IsNested(unit.items[i].slot)}}
    ELSE {}

\* C21 as the specification states it: for a portal owned by A whose payload
\* holds a portal owned by B, A and B both being slot-bearing nodes of the
\* stripped tree, after teleportation a node B holds the inner payload and a
\* node A holds the outer payload, which contains no portal.
C21_Claim ==
    teleport_pc = "done" =>
        \A p \in NestedIn(root_in) :
            LET a == p.owner
                b == p.slot.slot.slot.owner
                inner == p.slot.slot.slot.slot.slot
            IN  {a, b} \subseteq SlotBearingIds(stripped) =>
                    /\ inner \in HeldBy(t_root, b)
                    /\ \E u \in HeldBy(t_root, a) :
                         u.unit = "SizeBox" /\ u.id = IdCarrier /\ ~HasPortal(u)

\* what extraction does for nested portals: the entry of the inner portal is
\* in the holding list before that of the outer one, whose payload holds an
\* emptied Portal node where the inner portal was
InnerExtractedFirst ==
    teleport_pc \in {"consumed", "done"} =>
        \A k \in 1..Len(extracted) :
            (extracted[k][2].slot.unit = "SizeBox" /\ extracted[k][2].slot.id = IdCarrier) =>
                /\ extracted[k][2].slot.slot = PortalBoxDefault
                /\ k > 1
                /\ extracted[k - 1][2].slot.unit = "TextBox"


(***************************************************************************)
(* Unmatched portals                                                       *)

\* the identities of all the nodes of a frozen tree, those in payloads too
RECURSIVE AllIds(_)
AllIds(unit) ==
    CASE unit.unit \in SingleSlot -> {unit.id} \cup AllIds(unit.slot)
      [] unit.unit \in MultiSlot ->
           {unit.id} \cup UNION {AllIds(unit.items[i].slot) : i \in 1..Len(unit.items)}
      [] unit.unit = "PortalBox" -> {unit.id} \cup AllIds(unit.slot.slot)
      [] unit.unit = "None" -> {}
      [] OTHER -> {unit.id}

\* the texts of the TextBox nodes of a frozen tree
RECURSIVE Texts(_)
Texts(unit) ==
    CASE unit.unit \in SingleSlot -> Texts(unit.slot)
      [] unit.unit \in MultiSlot ->
           UNION {Texts(unit.items[i].slot) : i \in 1..Len(unit.items)}
      [] unit.unit = "PortalBox" -> Texts(unit.slot.slot)
      [] unit.unit = "TextBox" -> {unit.text}
      [] OTHER -> {}

\* a unit is a portal whose owner is none of the identities `ids`
Unmatched(unit, ids) == unit.unit = "PortalBox" /\ unit.owner \notin ids

\* a frozen tree without the portals whose owner is none of `ids`
RECURSIVE Without(_, _)
Without(unit, ids) ==
    CASE unit.unit \in SingleSlot ->
           [unit EXCEPT !.slot = IF Unmatched(unit.slot, ids) THEN NoUnit
                                 ELSE Without(unit.slot, ids)]
      [] unit.unit \in MultiSlot ->
           LET kept == SelectSeq(unit.items, LAMBDA item : ~Unmatched(item.slot, ids))
           IN  [unit EXCEPT !.items =
                  [i \in 1..Len(kept) |-> [kept[i] EXCEPT !.slot = Without(kept[i].slot, ids)]]]
      [] unit.unit = "PortalBox" ->
           [unit EXCEPT !.slot.slot = IF Unmatched(unit.slot.slot, ids) THEN NoUnit
                                      ELSE Without(unit.slot.slot, ids)]
      [] OTHER -> unit

\* a frozen tree without the emptied Portal nodes extraction left in it and
\* without the items that hold nothing
RECURSIVE Erase(_)
Erase(unit) ==
    CASE unit = PortalBoxDefault -> NoUnit
      [] unit.unit \in SingleSlot -> [unit EXCEPT !.slot = Erase(unit.slot)]
      [] unit.unit \in MultiSlot ->
           LET erased == [i \in 1..Len(unit.items) |->
                            [unit.items[i] EXCEPT !.slot = Erase(unit.items[i].slot)]]
           IN  [unit EXCEPT !.items = SelectSeq(erased, LAMBDA item : item.slot # NoUnit)]
      [] OTHER -> unit

\* the entries of the holding list whose owner is no node of the input tree
LostEntries ==
    {k \in 1..Len(extracted) : extracted[k][1] \notin AllIds(root_in)}

\* C22 as the specification states it: the payload of a portal whose owner
\* matches no node appears nowhere in the output, and the output is, but for
\* the emptied Portal nodes, the output teleportation has for the tree without
\* that portal.
C22_Claim ==
    teleport_pc = "done" /\ LostEntries # {} =>
        /\ \A k \in LostEntries : Texts(extracted[k][2].slot) \cap Texts(t_root) = {}
        /\ Erase(t_root) = Erase(TeleportPortals(Without(root_in, AllIds(root_in))))

\* what does hold of a portal whose owner matches no node: its payload is
\* nowhere in the output and its entry stays in the holding list
UnmatchedDropped ==
    teleport_pc = "done" =>
        \A k \in LostEntries :
            /\ Texts(extracted[k][2].slot) \cap Texts(t_root) = {}
            /\ \E n \in 1..Len(t_portals) : t_portals[n] = extracted[k]


(***************************************************************************)
(* Grafts                                                                  *)

\* the nodes of a frozen tree
RECURSIVE Nodes(_)
Nodes(unit) ==
    CASE unit.unit \in SingleSlot -> {unit} \cup Nodes(unit.slot)
      [] unit.unit \in MultiSlot ->
           {unit} \cup UNION {Nodes(unit.items[i].slot) : i \in 1..Len(unit.items)}
      [] unit.unit = "PortalBox" -> {unit} \cup Nodes(unit.slot.slot)
      [] OTHER -> {unit}

\* the entries of a holding list that are owned by `id`
Owned(list, id) == {k \in 1..Len(list) : list[k][1] = id}

\* an entry owned by `id` was taken from the holding list
TakenFor(id) == Cardinality(Owned(t_portals, id)) < Cardinality(Owned(extracted, id))

\* two units are the same node: the same kind and Identity, and the same text
\* for a TextBox, whatever was grafted below them
SameNode(u, v) ==
    /\ u.unit = v.unit
    /\ u.unit # "None" => u.id = v.id
    /\ u.unit = "TextBox" => u = v

\* the identities of the single-slot boxes of a frozen tree
SingleSlotIds(unit) == {u.id : u \in {n \in Nodes(unit) : n.unit \in SingleSlot}}

\* C23: once teleportation is done, for every Identity of a single-slot box
\* for which an entry was taken from the holding list, a single-slot box with
\* that Identity holds the bare node of a payload it owns, with no item
\* wrapper and no layout, whatever child it had; a single-slot root that owns
\* one portal holds that portal's bare node.  The node is the payload's with
\* whatever the injection grafted below it afterwards.
C23_SoleSlot ==
    teleport_pc = "done" =>
        /\ \A id \in SingleSlotIds(t_root) :
             TakenFor(id) =>
                 \E u \in Nodes(t_root) :
                     /\ u.unit \in SingleSlot
                     /\ u.id = id
                     /\ \E k \in Owned(extracted, id) :
                          SameNode(u.slot, extracted[k][2].slot)
        /\ (root_in.unit \in SingleSlot /\ Cardinality(Owned(extracted, IdRoot)) = 1) =>
               \A k \in Owned(extracted, IdRoot) :
                   SameNode(t_root.slot, extracted[k][2].slot)

\* a single-slot root that held a SizeBox holds, after teleportation, the
\* TextBox that a portal carried in a ContentItem with a layout of its own
C23_Witness ==
    /\ teleport_pc = "done"
    /\ t_count > 0
    /\ root_in.unit = "SizeBox"
    /\ stripped.slot.unit = "SizeBox"
    /\ t_root.slot # stripped.slot
    /\ \E k \in Owned(extracted, IdRoot) :
         extracted[k][2].kind = "ContentItem" /\ extracted[k][2].layout = 1
    /\ t_root.slot = TextBox(3)


\* the item kind of a multi-slot box
OwnKind(unit_kind) ==
    CASE unit_kind = "ContentBox" -> "ContentItem"
      [] unit_kind = "FlexBox" -> "FlexItem"
      [] unit_kind = "GridBox" -> "GridItem"

\* the item `item` is the one appended for the entry `slot` of the holding list
AppendedFor(unit_kind, item, slot) ==
    /\ SameNode(item.slot, slot.slot)
    /\ item.layout = IF slot.kind = OwnKind(unit_kind) THEN slot.layout ELSE 0

\* C24: once teleportation is done, a multi-slot root holds the items of the
\* stripped tree, in their order and with their layout, followed by one item
\* per portal the root owns; an item appended for a payload of the root's own
\* item kind has the payload's layout, one appended for a bare node or for an
\* item of another kind has the default layout.
C24_Appended ==
    teleport_pc = "done" /\ t_count > 0 /\ root_in.unit \in MultiSlot =>
        LET n == Len(stripped.items)
            own == Owned(extracted, IdRoot)
        IN  /\ Len(t_root.items) = n + Cardinality(own)
            /\ \A i \in 1..n :
                 /\ SameNode(t_root.items[i].slot, stripped.items[i].slot)
                 /\ t_root.items[i].layout = stripped.items[i].layout
            /\ \A j \in (n + 1)..Len(t_root.items) :
                 \E k \in own : AppendedFor(t_root.unit, t_root.items[j], extracted[k][2])
            /\ \A k \in own :
                 \E j \in (n + 1)..Len(t_root.items) :
                     AppendedFor(t_root.unit, t_root.items[j], extracted[k][2])

\* a ContentBox root that held a TextBox holds it still as its first item,
\* followed by an item appended with the layout of a ContentItem payload and
\* by one appended with the default layout for a bare payload
C24_Witness ==
    /\ teleport_pc = "done"
    /\ t_count > 0
    /\ root_in.unit = "ContentBox"
    /\ t_root.items[1].slot = TextBox(0)
    /\ \E i, j \in (Len(stripped.items) + 1)..Len(t_root.items) :
         /\ t_root.items[i] = [slot |-> TextBox(3), layout |-> 1]
         /\ t_root.items[j] = [slot |-> TextBox(1), layout |-> 0]


----------------------------------------------------------------------------
(* process_with_context, stepped through: the swap of the change flag, the *)
(* gate, and the walk one call of process_node at a time, while other      *)
(* threads signal changes through clones of the ChangeNotifier.  Of all    *)
(* the application holds only the flag is shared, so the writes of one     *)
(* call to the rest are taken together in the step that ends the call.     *)

MaxFrames == 4      \* how many calls of process_node_component the stack holds
MaxSignals == 2     \* how many changes the other threads signal

\* the declarative trees the stepped passes walk
PassTrees ==
    {Component("looper", None, <<>>),
     Component("looper", Some("k"), <<>>),
     Component("ping", None, <<>>),
     Component("vertical_box", None, <<>>),
     Component("counter", Some("c"), <<>>),
     NoneNode}

\* the trees whose root never resolves to a primitive
NeverResolving == {t \in PassTrees : t.kind = "Component" /\ t.type_name \in {"looper", "ping"}}

PassInit ==
    /\ AppInit
    /\ TeleportOff
    /\ FnOff
    /\ WritesOff
    /\ pass_pc = "idle"
    /\ NoFrames
    /\ unanswered = FALSE
    /\ given_during = FALSE
    /\ n_signal = 0
    /\ n_notified = 0

\* a flag that a consumed change does not reach
DirtyUnnotified(dirty0, changed_) == dirty0

\* if self.change_notifier.consume_change() { self.dirty = true; }
NotifiedDirty(dirty0, changed_) == dirty0 \/ changed_

\* ChangeNotifier::change on a clone, from another thread
Signal ==
    /\ pass_pc \notin {"off", "aborted"}
    /\ n_signal < MaxSignals
    /\ change_notifier' = TRUE
    /\ unanswered' = TRUE
    /\ given_during' = (pass_pc # "idle")
    /\ n_signal' = n_signal + 1
    /\ UNCHANGED <<pass_pc, frame_stack, frame_node, frame_w, frame_delta, took,
                   n_notified>>
    /\ UNCHANGED <<tree, rendered_tree, states, state_changes, animators, messages,
                   signals, unmount_closures, dirty, render_changed,
                   last_invalidation_cause, op, ret, ran, converted, log, used_ids,
                   pass_tree, walked, changed, outbox, dropped, walk_stores,
                   undelivered, mounts, idle>>
    /\ UNCHANGED <<teleport_vars, fn_vars, write_vars>>

\* the driver applies a tree between two calls of process
PassApply(t) == pass_pc = "idle" /\ Apply(t)

\* the variables a step inside process_with_context leaves alone
InsidePass ==
    /\ UNCHANGED <<tree, rendered_tree, states, state_changes, animators, messages,
                   signals, unmount_closures, last_invalidation_cause, ret, ran,
                   converted, log, used_ids, pass_tree, walked, changed, outbox,
                   dropped, walk_stores, undelivered, mounts, idle>>
    /\ UNCHANGED <<unanswered, given_during, n_signal>>
    /\ UNCHANGED <<teleport_vars, fn_vars, write_vars>>

\* process() or forced_process() is called
PassEnter(name) ==
    /\ pass_pc = "idle"
    /\ op' = name
    /\ dirty' = (dirty \/ name = "forced_process")
    /\ pass_pc' = "swap"
    /\ InsidePass
    /\ UNCHANGED <<change_notifier, render_changed, frame_stack, frame_node, frame_w,
                   frame_delta, took, n_notified>>

\* if self.change_notifier.consume_change() { self.dirty = true; }
PassSwap ==
    /\ pass_pc = "swap"
    /\ change_notifier' = FALSE
    /\ dirty' = NotifiedDirty(dirty, change_notifier)
    /\ took' = [signal |-> change_notifier, dirty0 |-> dirty, during |-> given_during]
    /\ unanswered' = FALSE
    /\ pass_pc' = "gate"
    /\ UNCHANGED <<tree, rendered_tree, states, state_changes, animators, messages,
                   signals, unmount_closures, last_invalidation_cause, ret, ran,
                   converted, log, used_ids, pass_tree, walked, changed, outbox,
                   dropped, walk_stores, undelivered, mounts, idle>>
    /\ UNCHANGED <<teleport_vars, fn_vars, write_vars, op, render_changed, frame_stack, frame_node, frame_w,
                   frame_delta, given_during, n_signal, n_notified>>

\* the gate finds nothing to do: return false
PassGateReturn ==
    /\ pass_pc = "gate"
    /\ ~ShouldRun(dirty, state_changes, messages, animators)
    /\ render_changed' = FALSE
    /\ Returned(dirty)
    /\ pass_pc' = "idle"
    /\ took' = TookNothing
    /\ UNCHANGED <<teleport_vars, fn_vars, write_vars, op, change_notifier, frame_stack, frame_node, frame_w,
                   frame_delta, unanswered, given_during, n_signal, n_notified>>

\* the gate lets the pass run: the animators are processed and process_node
\* is called on the root
PassGateRun ==
    /\ pass_pc = "gate"
    /\ ShouldRun(dirty, state_changes, messages, animators)
    /\ render_changed' = FALSE
    /\ \E delta \in DeltaTimes(animators) :
         /\ frame_delta' = delta
         /\ frame_w' = WalkStart(ProcessedAnimators(delta))
    /\ frame_node' = tree
    /\ frame_stack' = <<>>
    /\ n_notified' = IF took.signal /\ ~ShouldRun(took.dirty0, state_changes, messages,
                                                  animators)
                       THEN n_notified + 1
                     ELSE n_notified
    /\ pass_pc' = "call"
    /\ InsidePass
    /\ UNCHANGED <<op, dirty, change_notifier, took>>

\* the path and the shared payload the call in progress hands down
FramePath == IF frame_stack = <<>> THEN <<>> ELSE frame_stack[Len(frame_stack)].inv.path

FrameShared ==
    IF frame_stack = <<>> THEN None
    ELSE Some(frame_stack[Len(frame_stack)].inv.shared_props)

\* the states the walk in progress reads
FrameStates == MergedStates(states, state_changes)

\* process_node on a component: process_node_component up to its call of
\* process_node on what the processor returned
FrameCall ==
    /\ pass_pc = "call"
    /\ frame_node.kind = "Component"
    /\ Len(frame_stack) < MaxFrames
    /\ LET inv == Invocation(frame_node, FrameStates, FramePath, "<*>", FrameShared, frame_w)
           out == Processor(frame_node.type_name, Context(frame_node, inv))
           fx == RunClosures(Closures(inv, out.life_cycle), inv.id, inv.state,
                             inv.messages_list, NoEffects)
       IN  /\ frame_w' = Invoked(inv, out.life_cycle, fx, frame_w)
           /\ frame_stack' = Append(frame_stack, [inv |-> inv, fx |-> fx])
           /\ frame_node' = out.node
    /\ InsidePass
    /\ UNCHANGED <<op, dirty, change_notifier, render_changed, pass_pc, frame_delta, took,
                   n_notified>>

\* process_node on a component when the stack has no room for the call: the
\* thread overflows its stack and the process is aborted
StackOverflow ==
    /\ pass_pc = "call"
    /\ frame_node.kind = "Component"
    /\ Len(frame_stack) = MaxFrames
    /\ pass_pc' = "aborted"
    /\ InsidePass
    /\ UNCHANGED <<op, dirty, change_notifier, render_changed, frame_stack, frame_node,
                   frame_w, frame_delta, took, n_notified>>

\* process_node on a node that is no component
FrameLeaf ==
    /\ pass_pc = "call"
    /\ frame_node.kind # "Component"
    /\ LET r == ProcessNode(frame_node, FrameStates, FramePath, "<*>", FrameShared, frame_w)
       IN  /\ frame_node' = r.node
           /\ frame_w' = r.w
    /\ pass_pc' = "return"
    /\ InsidePass
    /\ UNCHANGED <<op, dirty, change_notifier, render_changed, frame_stack, frame_delta,
                   took, n_notified>>

\* process_node_component from the return of process_node to its own return
FrameReturn ==
    /\ pass_pc = "return"
    /\ frame_stack # <<>>
    /\ LET top == frame_stack[Len(frame_stack)]
       IN  frame_w' = [frame_w EXCEPT
                         !.state_changes = ApplyStateWrites(@, top.inv.id, top.fx.state_q)]
    /\ frame_stack' = SubSeq(frame_stack, 1, Len(frame_stack) - 1)
    /\ InsidePass
    /\ UNCHANGED <<op, dirty, change_notifier, render_changed, pass_pc, frame_node,
                   frame_delta, took, n_notified>>

\* process_with_context from the return of the walk to its end
PassComplete ==
    /\ pass_pc = "return"
    /\ frame_stack = <<>>
    /\ \E wk \in {Walked(frame_node, frame_w, FrameStates, ProcessedAnimators(frame_delta))} :
         RunPass(dirty, wk)
    /\ pass_pc' = "idle"
    /\ frame_node' = NoneNode
    /\ frame_w' = EmptyMap
    /\ frame_delta' = 0
    /\ took' = TookNothing
    /\ UNCHANGED <<teleport_vars, fn_vars, write_vars, op, change_notifier, render_changed, frame_stack,
                   unanswered, given_during, n_signal, n_notified>>

PassNext ==
    \/ \E t \in PassTrees : PassApply(t)
    \/ Signal
    \/ PassEnter("process")
    \/ PassEnter("forced_process")
    \/ PassSwap
    \/ PassGateReturn
    \/ PassGateRun
    \/ FrameCall
    \/ StackOverflow
    \/ FrameLeaf
    \/ FrameReturn
    \/ PassComplete

PassSpec == PassInit /\ [][PassNext]_vars

\* the stepped pass ends as the pass taken in one step does
PassIsStepped ==
    (pass_pc = "idle" /\ ran) =>
        /\ dirty = FALSE
        /\ ret = TryFromWidgetNode(walked).ok
        /\ pass_tree = tree

\* C25 as the specification states it: every pass that starts runs to
\* completion, the walk never being cut short, and a pass over a tree whose
\* root never resolves to a primitive ends with process() returning false and
\* the frozen tree unchanged.
C25_Claim ==
    /\ pass_pc # "aborted"
    /\ (pass_pc = "idle" /\ ran /\ tree \in NeverResolving) => (~ret /\ ~changed)

\* what the walk does on a root that never resolves: every call of
\* process_node is handed a component again, one path segment deeper, and
\* none has returned
RecursionGrows ==
    (pass_pc = "call" /\ tree \in NeverResolving) =>
        /\ frame_node.kind = "Component"
        /\ Len(FramePath) = Len(frame_stack)
        /\ Cardinality(frame_w.used_ids) = Len(frame_stack)


\* C27: a signalled change stays in the flag until a call of process swaps it
\* out, whenever it was signalled; the call that swapped it out passes the
\* gate and runs a pass; and no more passes ran only because of a signalled
\* change than changes were signalled.
C27_NeverLost ==
    /\ unanswered => change_notifier
    /\ (pass_pc = "gate" /\ took.signal) =>
           ShouldRun(dirty, state_changes, messages, animators)
    /\ n_notified <= n_signal

\* a pass is running for no other reason than a change that was signalled
\* while an earlier call of process was executing
C27_Witness ==
    /\ pass_pc = "call"
    /\ took.signal
    /\ took.during
    /\ ~ShouldRun(took.dirty0, state_changes, messages, animators)
    /\ n_notified > 0


----------------------------------------------------------------------------
(* Functions called on their own.  A string is the sequence of its         *)
(* characters, so that slices and splits are computed as the code does.    *)

MaxText == 2        \* the longest of the short strings given to a function
MaxDepth == 2       \* the longest path given to WidgetId::new
Width == 256        \* the values a u8 holds, and the length new panics at

Chars == {"a", "/"}

\* the strings of at most n characters
RECURSIVE Strings(_)
Strings(n) ==
    IF n = 0 THEN {<<>>}
    ELSE Strings(n - 1)
         \cup {Append(t, ch) : t \in {t \in Strings(n - 1) : Len(t) = n - 1}, ch \in Chars}

\* a string of Width characters
Long == [i \in 1..Width |-> "a"]

Segments == Strings(MaxText) \cup {Long}

TypeNames == {<<"t">>, <<"t", "y">>, Long}

\* the paths of 1 to n segments
RECURSIVE Paths(_)
Paths(n) ==
    IF n = 0 THEN {}
    ELSE Paths(n - 1)
         \cup {<<seg>> : seg \in Segments}
         \cup {Append(q, seg) : q \in {q \in Paths(n - 1) : Len(q) = n - 1},
                                seg \in Segments}

\* the panics of WidgetId::new
NewPanics(type_name, path) ==
    \/ Len(type_name) >= Width
    \/ \E i \in 1..Len(path) : Len(path[i]) >= Width

\* for part in path { id.push('/'); id.push_str(&part); }
RECURSIVE PushParts(_, _)
PushParts(id, path) ==
    IF path = <<>> THEN id
    ELSE PushParts(id \o <<"/">> \o Head(path), Tail(path))

\* WidgetId::new where it does not panic, the id as a sequence of characters
WidgetIdChars(type_name, path) ==
    [id |-> PushParts(type_name \o <<":">>, path),
     type_name_len |-> Len(type_name) % Width,
     key_len |-> (IF path = <<>> THEN 0 ELSE Len(path[Len(path)])) % Width,
     depth |-> Len(path)]

\* str::split('/')
RECURSIVE Split(_)
Split(str) ==
    IF \A i \in 1..Len(str) : str[i] # "/" THEN <<str>>
    ELSE LET i == CHOOSE i \in 1..Len(str) :
                    str[i] = "/" /\ \A j \in 1..(i - 1) : str[j] # "/"
         IN  <<SubSeq(str, 1, i - 1)>> \o Split(SubSeq(str, i + 1, Len(str)))

\* WidgetId::type_name
TypeNameOf(w) == SubSeq(w.id, 1, w.type_name_len)

\* a key read from the front of the path
FirstPartOf(w) == SubSeq(w.id, w.type_name_len + 3, w.type_name_len + 2 + w.key_len)

\* WidgetId::key
KeyOf(w) == SubSeq(w.id, Len(w.id) - w.key_len + 1, Len(w.id))

\* WidgetId::parts
PartsOf(w) == Split(SubSeq(w.id, w.type_name_len + 3, Len(w.id)))

\* WidgetId::depth
DepthOf(w) == w.depth

\* the calls of WidgetId::new
NewInputs ==
    {[fn |-> "WidgetId::new", type_name |-> type_name, path |-> path] :
       type_name \in TypeNames, path \in Paths(MaxDepth)}

\* a component that expands to a primitive
Leaf(key) == Component("counter", key, <<>>)

\* a component that expands to a component, which expands to a FlexBox of
\* two leaves
Column(key) == Component("vertical_box", key, <<Leaf(None), Leaf(Some("k"))>>)

\* a component that expands to a SizeBox around a node
Boxed(key, node) == ComponentNamed("size_box", key, MapInsert(EmptyMap, "content", node))

\* the nodes process_node is called with
CalledNodes ==
    {Leaf(None), Leaf(Some("c")), Column(None), Column(Some("v")),
     Boxed(None, Leaf(None)), Boxed(Some("b"), Column(None)),
     Boxed(None, Boxed(None, Leaf(None)))}

\* the calls of process_node
NodeInputs ==
    {[fn |-> "process_node", node |-> node, path |-> path, possible_key |-> possible_key,
      master |-> None] :
       node \in CalledNodes, path \in {<<>>, <<"p">>}, possible_key \in {"<*>", "<3>"}}

\* WidgetUnitNode::GridBox
GridBoxNode(id, items) ==
    [kind |-> "Unit", unit |-> "GridBox", id |-> id, items |-> items]

\* WidgetUnitNode::AreaBox
AreaBoxNode(id, slot) == [kind |-> "Unit", unit |-> "AreaBox", id |-> id, slot |-> slot]

\* WidgetUnitNode::PortalBox with a PortalBoxSlotNode::Slot
PortalBoxNode(id, owner, slot) ==
    [kind |-> "Unit", unit |-> "PortalBox", id |-> id, owner |-> owner,
     slot |-> [kind |-> "Slot", slot |-> slot, layout |-> 0]]

\* a child with a key and a shared payload of its own
Sibling == WithSharedProps(Leaf(Some("a")), SharedInner)

\* the primitive containers process_node_unit is called with
CalledUnits ==
    {SizeBoxNode(IdDeep, Leaf(None)),
     SizeBoxNode(IdDeep, Sibling),
     AreaBoxNode(IdDeep, Leaf(None)),
     PortalBoxNode(IdWrap, IdRoot, Leaf(None)),
     PortalBoxNode(IdWrap, IdLost, Sibling),
     ContentBoxNode(IdRoot, Items(<<Sibling, Leaf(None)>>)),
     ContentBoxNode(IdRoot, Items(<<UnitNone, Leaf(None), Sibling>>)),
     FlexBoxNode(IdRoot, Items(<<Leaf(None), Sibling, Leaf(None)>>)),
     FlexBoxNode(IdRoot, Items(<<Leaf(None)>>)),
     GridBoxNode(IdRoot, Items(<<Leaf(None), Sibling>>))}

\* the calls of process_node_unit
UnitInputs ==
    {[fn |-> "process_node_unit", unit |-> unit, path |-> path, master |-> master] :
       unit \in CalledUnits, path \in {<<>>, <<"p">>}, master \in {None, Some(SharedOuter)}}

FnInputs == NewInputs \cup NodeInputs \cup UnitInputs

FnInit ==
    /\ AppInit
    /\ TeleportOff
    /\ PassOff
    /\ WritesOff
    /\ fn_pc = "called"
    /\ fn_in \in FnInputs
    /\ fn_out = <<>>

\* WidgetId::new, then the methods of the Identity it built
CallNew ==
    /\ fn_pc = "called"
    /\ fn_in.fn = "WidgetId::new"
    /\ fn_out' = IF NewPanics(fn_in.type_name, fn_in.path) THEN [panicked |-> TRUE]
                 ELSE LET w == WidgetIdChars(fn_in.type_name, fn_in.path)
                      IN  [panicked |-> FALSE,
                           id |-> w,
                           string |-> w.id,
                           type_name |-> TypeNameOf(w),
                           key |-> KeyOf(w),
                           parts |-> PartsOf(w),
                           depth |-> DepthOf(w)]
    /\ fn_pc' = "done"
    /\ UNCHANGED fn_in
    /\ UNCHANGED <<app_vars, teleport_vars, pass_vars, write_vars>>

\* the invocations a walk logged
InvokeEvents(events) == SelectSeq(events, LAMBDA e : e.ev = "invoke")

\* process_node, on the stores of a new application
CallProcessNode ==
    /\ fn_pc = "called"
    /\ fn_in.fn = "process_node"
    /\ LET r == ProcessNode(fn_in.node, EmptyMap, fn_in.path, fn_in.possible_key,
                            fn_in.master, WalkStart(EmptyMap))
       IN  fn_out' = [node |-> r.node, log |-> InvokeEvents(r.w.log), used_ids |-> r.w.used_ids]
    /\ fn_pc' = "done"
    /\ UNCHANGED fn_in
    /\ UNCHANGED <<app_vars, teleport_vars, pass_vars, write_vars>>

\* process_node_unit, on the stores of a new application
CallProcessNodeUnit ==
    /\ fn_pc = "called"
    /\ fn_in.fn = "process_node_unit"
    /\ LET r == ProcessNodeUnit(fn_in.unit, EmptyMap, fn_in.path, fn_in.master,
                                WalkStart(EmptyMap))
       IN  fn_out' = [node |-> r.node, log |-> InvokeEvents(r.w.log), used_ids |-> r.w.used_ids]
    /\ fn_pc' = "done"
    /\ UNCHANGED fn_in
    /\ UNCHANGED <<app_vars, teleport_vars, pass_vars, write_vars>>

FnNext ==
    \/ CallNew
    \/ CallProcessNode
    \/ CallProcessNodeUnit

FnSpec == FnInit /\ [][FnNext]_vars

\* the string form the specification gives: T, ':', then '/' and the
\* segment for each segment in order
RECURSIVE Slashed(_)
Slashed(path) == IF path = <<>> THEN <<>> ELSE <<"/">> \o Head(path) \o Slashed(Tail(path))

StringForm(type_name, path) == type_name \o <<":">> \o Slashed(path)

\* a call of WidgetId::new has returned or panicked
NewDone == fn_pc = "done" /\ fn_in.fn = "WidgetId::new"

\* C26 as the specification states it: for every type tag and non-empty
\* path an Identity is built whose string form is T:/p1/../pn, whose
\* type_name() is T, key() is pn, parts() are p1..pn, depth() is n, and which
\* is equal to any other built from the same tag and path.
C26_Original ==
    NewDone =>
        /\ ~fn_out.panicked
        /\ fn_out.string = StringForm(fn_in.type_name, fn_in.path)
        /\ fn_out.type_name = fn_in.type_name
        /\ fn_out.key = fn_in.path[Len(fn_in.path)]
        /\ fn_out.parts = fn_in.path
        /\ fn_out.depth = Len(fn_in.path)
        /\ fn_out.id = WidgetIdChars(fn_in.type_name, fn_in.path)

\* a segment holds the separator of the string form
HasSlash(path) == \E i \in 1..Len(path) : \E j \in 1..Len(path[i]) : path[i][j] = "/"

\* C26: WidgetId::new panics when the type tag or a segment is 256 bytes long
\* or longer.  Otherwise it builds an Identity whose string form is
\* T:/p1/../pn, whose type_name() is T, key() is pn and depth() is n, and
\* which is equal to any other built from the same tag and path; parts()
\* yields the string form after "T:/" split at every '/', which is p1..pn
\* when no segment holds a '/'.
C26_Identity ==
    NewDone =>
        IF NewPanics(fn_in.type_name, fn_in.path) THEN fn_out.panicked
        ELSE /\ ~fn_out.panicked
             /\ fn_out.string = StringForm(fn_in.type_name, fn_in.path)
             /\ fn_out.type_name = fn_in.type_name
             /\ fn_out.key = fn_in.path[Len(fn_in.path)]
             /\ fn_out.depth = Len(fn_in.path)
             /\ fn_out.id = WidgetIdChars(fn_in.type_name, fn_in.path)
             /\ fn_out.parts = Split(Tail(Slashed(fn_in.path)))
             /\ ~HasSlash(fn_in.path) => fn_out.parts = fn_in.path

\* an Identity was built from a two-character tag and a path of two
\* segments that differ, none with a '/'
C26_Witness ==
    /\ NewDone
    /\ ~fn_out.panicked
    /\ Len(fn_in.type_name) = 2
    /\ fn_in.path = <<<<"a">>, <<"a", "a">>>>
    /\ fn_out.parts = fn_in.path
    /\ fn_out.key = <<"a", "a">>


----------------------------------------------------------------------------
(* is_dirty *)

\* Application::is_dirty
IsDirty == dirty

\* the next call of process would run a pass: the gate, on the flag as the
\* swap of the change notifier would leave it
WouldRun == ShouldRun(dirty \/ change_notifier, state_changes, messages, animators)

\* C28 as the specification states it: in every state in which the next
\* process() call would run a pass, is_dirty() is true.
C28_Claim == WouldRun => IsDirty


----------------------------------------------------------------------------
(* Keys and paths                                                          *)

Front(path) == SubSeq(path, 1, Len(path) - 1)

\* the invocation that encloses the n-th one of a log: the latest one before
\* it whose path is the path of the n-th without its last segment, 0 if none
Parent(events, n) ==
    LET before == {m \in 1..(n - 1) : events[m].path = Front(events[n].path)}
    IN  IF before = {} THEN 0 ELSE CHOOSE m \in before : \A k \in before : k <= m

\* a call of process_node has returned
NodeDone == fn_pc = "done" /\ fn_in.fn = "process_node"

\* C29: every composite invoked in a call of process_node has the Identity
\* of its type tag and its path; the last segment of the path is its own key
\* when it has one and otherwise the placeholder it was handed; the segments
\* before are the caller's path for a composite no other encloses, and
\* otherwise the whole path of the composite that encloses it, primitive
\* containers in between adding none; the first composite has the caller's
\* placeholder, and a composite a vertical_box expands to is handed the
\* placeholder the vertical_box was handed.
C29_KeysAndPaths ==
    NodeDone =>
        \A n \in 1..Len(fn_out.log) :
            LET e == fn_out.log[n]
                up == Parent(fn_out.log, n)
            IN  /\ e.id = WidgetIdNew(e.type_name, e.path)
                /\ e.path[Len(e.path)] = IF e.explicit # None THEN e.explicit[1]
                                         ELSE e.possible_key
                /\ IF up = 0
                     THEN Front(e.path) = fn_in.path
                   ELSE Len(e.path) > Len(fn_in.path) + 1
                /\ n = 1 => e.possible_key = fn_in.possible_key
                /\ (up # 0 /\ fn_out.log[up].type_name = "vertical_box") =>
                       e.possible_key = fn_out.log[up].possible_key

\* a vertical_box with no key, handed "<3>" below the path "p", was expanded
\* to a flex_box with the Identity flex_box:/p/<3>/<3> and its second leaf,
\* with a key of its own, has the Identity counter:/p/<3>/<3>/k
C29_Witness ==
    /\ NodeDone
    /\ fn_in.node = Column(None)
    /\ fn_in.path = <<"p">>
    /\ fn_in.possible_key = "<3>"
    /\ WidgetIdNew("flex_box", <<"p", "<3>", "<3>">>) \in fn_out.used_ids
    /\ WidgetIdNew("counter", <<"p", "<3>", "<3>", "k">>) \in fn_out.used_ids
    /\ WidgetIdNew("counter", <<"p", "<3>", "<3>", "<0>">>) \in fn_out.used_ids


\* a call of process_node_unit has returned
UnitDone == fn_pc = "done" /\ fn_in.fn = "process_node_unit"

\* the nodes a primitive container holds in its slots, in order
SlotsOf(unit) ==
    CASE unit.unit \in SingleSlot -> <<unit.slot>>
      [] unit.unit = "PortalBox" -> <<unit.slot.slot>>
      [] unit.unit \in MultiSlot -> [i \in 1..Len(unit.items) |-> unit.items[i].slot]
      [] OTHER -> <<>>

\* the placeholder the specification gives the child in the i-th slot, the
\* first being slot 0
Placeholder(unit, i) ==
    IF unit.unit \in MultiSlot THEN <<"<0>", "<1>", "<2>">>[i + 1] ELSE "."

\* the slots of a container that hold a component, first slot 0
ComponentSlots(unit) ==
    {i \in 0..(Len(SlotsOf(unit)) - 1) : SlotsOf(unit)[i + 1].kind = "Component"}

\* the place in the log of the invocation of the component in slot i
LogPlace(unit, i) == Cardinality({j \in ComponentSlots(unit) : j <= i})

\* C30: when process_node_unit returns, no slot of the container holds a
\* component any more and the log has one invocation per component slot, in
\* slot order; the invocation for slot i was handed "." in a single-slot
\* container and in a portal and "<i>" in a multi-slot one, the path the
\* container was called with and the shared payload it was called with,
\* whatever key and payload a sibling has; a portal keeps its owner.
C30_ChildSlots ==
    UnitDone =>
        /\ \A i \in 1..Len(SlotsOf(fn_out.node)) : SlotsOf(fn_out.node)[i].kind # "Component"
        /\ Len(fn_out.log) = Cardinality(ComponentSlots(fn_in.unit))
        /\ \A i \in ComponentSlots(fn_in.unit) :
             LET e == fn_out.log[LogPlace(fn_in.unit, i)]
             IN  /\ e.possible_key = Placeholder(fn_in.unit, i)
                 /\ Front(e.path) = fn_in.path
                 /\ e.master = fn_in.master
                 /\ e.type_name = SlotsOf(fn_in.unit)[i + 1].type_name
                 /\ e.explicit = SlotsOf(fn_in.unit)[i + 1].key
        /\ fn_in.unit.unit = "PortalBox" => fn_out.node.owner = fn_in.unit.owner

\* a ContentBox called with a path and a shared payload held a primitive in
\* slot 0, a leaf in slot 1 and a sibling with a key and a payload of its own
\* in slot 2: the leaf was invoked as "<1>" with the container's payload
C30_Witness ==
    /\ UnitDone
    /\ fn_in.unit = ContentBoxNode(IdRoot, Items(<<UnitNone, Leaf(None), Sibling>>))
    /\ fn_in.path = <<"p">>
    /\ fn_in.master = Some(SharedOuter)
    /\ Len(fn_out.log) = 2
    /\ fn_out.log[1].id = WidgetIdNew("counter", <<"p", "<1>">>)
    /\ fn_out.log[1].master = Some(SharedOuter)
    /\ fn_out.log[2].id = WidgetIdNew("counter", <<"p", "a">>)
    /\ fn_out.log[2].possible_key = "<2>"


----------------------------------------------------------------------------
(* Empty and Tuple nodes in the walk                                       *)

\* the identity of the size_box of TreeTuple
IdSized == WidgetIdNew("size_box", <<"s">>)

\* the identities the counter in the tuple of TreeTuple would have if the
\* walk went into the tuple, under each placeholder the walk hands out
TupleIds == {WidgetIdNew("counter", <<"s", k>>) : k \in {".", "<0>", "<*>"}}

\* C31: a pass over an empty tree returns the empty node and uses no
\* identity; a pass over TreeTuple returns the size box with the tuple as it
\* was applied, the composite in it still unresolved, uses the identity of
\* the size_box only and logs no invocation, mount or change of anything
\* else; and the composite in the tuple never has an entry in the State,
\* Animation or teardown store, nor an event of any kind in the log.
C31_TuplePassesThrough ==
    /\ (ran /\ pass_tree = NoneNode) => (walked = NoneNode /\ used_ids = {})
    /\ (ran /\ pass_tree = TreeTuple) =>
          /\ walked = SizeBoxNode(IdSized, TupleNode(<<Component("counter", None, <<>>)>>))
          /\ used_ids = {IdSized}
          /\ DOMAIN states = {IdSized}
          /\ \A i \in 1..Len(log) :
               log[i].ev \in {"invoke", "mount", "change", "write"} => log[i].id = IdSized
    /\ TupleIds \cap (DOMAIN states \cup DOMAIN animators \cup DOMAIN unmount_closures
                      \cup DOMAIN state_changes) = {}
    /\ \A i \in 1..Len(log) : log[i].id \notin TupleIds

\* a pass over TreeTuple ran after a pass that had mounted the counters of
\* another tree, whose unmount closures it fired
C31_Witness ==
    /\ ran
    /\ pass_tree = TreeTuple
    /\ used_ids = {IdSized}
    /\ \E i \in 1..Len(log) : log[i].ev = "unmount"


----------------------------------------------------------------------------
(* The life-cycle branch of an invocation                                  *)

\* the closures the widgets register for mount, and those for change
MountKinds == {"signal", "write_one", "animate"}
ChangeKinds == {"count_messages", "forward"}

\* the place in the log of the invocation the event at place n belongs to
InvocationOf(events, n) ==
    CHOOSE m \in 1..n : /\ events[m].ev = "invoke"
                        /\ \A k \in (m + 1)..n : events[k].ev # "invoke"

\* C32: in every pass, with the State store taken as the walk reads it (the
\* stored states with the pending replacements laid over them), an
\* invocation is a mount exactly when its Identity has no State: the
\* processor is then given the default State, which the pass records, and
\* every closure called for the invocation is one the widget registered for
\* mount, called with the default State; otherwise the processor is given
\* the State the walk started with and every closure called is one
\* registered for change, called with that State.
C32_OneBranch ==
    [][(op' \in ProcessCalls /\ ran') =>
         LET start == MergedStates(states, state_changes)
         IN  \A n \in 1..Len(log') :
               LET e == log'[n]
               IN  /\ e.ev = "invoke" =>
                        /\ e.mounted <=> e.id \notin DOMAIN start
                        /\ e.mounted => /\ e.state = DefaultProps
                                        /\ e.id \in DOMAIN states'
                                        /\ states'[e.id] = DefaultProps
                        /\ ~e.mounted => e.state = start[e.id]
                   /\ e.ev \in {"mount", "change"} =>
                        LET inv == log'[InvocationOf(log', n)]
                        IN  /\ inv.id = e.id
                            /\ e.ev = "mount" <=> inv.mounted
                            /\ e.state = inv.state
                   /\ e.ev = "mount" => /\ e.closure \in MountKinds
                                        /\ e.id \notin DOMAIN start
                                        /\ e.state = DefaultProps
                   /\ e.ev = "change" => /\ e.closure \in ChangeKinds
                                         /\ e.id \in DOMAIN start
                                         /\ e.state = start[e.id]]_vars

\* a pass in which one composite was mounted and ran a mount closure, and
\* another was invoked again and ran a change closure with the State it had
C32_Witness ==
    /\ op \in ProcessCalls
    /\ ran
    /\ \E n \in 1..Len(log) : log[n].ev = "mount"
    /\ \E n \in 1..Len(log) : log[n].ev = "change" /\ log[n].state # DefaultProps


----------------------------------------------------------------------------
(* The state writers of the driver, with the calls tracked                 *)

MaxWrites == 2      \* most calls of a state writer tracked between two process calls

WriteTrees == {TreeKeyed, NoneNode}

\* the identities the tracked driver writes the state of: one that TreeKeyed
\* mounts and one that no tree mounts
WriteIds == {IdKeyed, IdGhost}

Mutators == {"bump", "mark"}

\* the record of a call of a state writer: the closure and the state it was
\* called with, if it was called, and what the call staged, if it staged
WriteCall(fn, id, f, given, result) ==
    [fn |-> fn, id |-> id, f |-> f, given |-> given, result |-> result]

\* the record of a call of process
ProcessCalled == WriteCall("process", WidgetIdDefault, "", None, None)

\* the calls tracked so far ended with a call of process
Closed == write_calls # <<>> /\ write_calls[Len(write_calls)].fn = "process"

\* the calls made since the last call of process
Open == IF Closed THEN <<>> ELSE write_calls

Tracked(call) ==
    /\ Len(Open) < MaxWrites
    /\ write_calls' = Append(Open, call)
    /\ UNCHANGED <<teleport_vars, pass_vars, fn_vars>>

TrackedApply(t) == Apply(t)

TrackedStateWrite(id, data) ==
    /\ Staged(WrittenChanges(states, state_changes, id, data))
    /\ Tracked(WriteCall("state_write", id, "", None,
                         IF id \in DOMAIN states THEN Some(data) ELSE None))

TrackedStateMutate(id, f) ==
    /\ Staged(MutatedChanges(states, state_changes, id, f))
    /\ Tracked(IF id \in DOMAIN states
                 THEN WriteCall("state_mutate", id, f, Some(states[id]),
                                Some(Mutate(f, states[id])))
               ELSE WriteCall("state_mutate", id, f, None, None))

TrackedStateMutateCloned(id, f) ==
    /\ Staged(ClonedChanges(states, state_changes, id, f))
    /\ Tracked(IF id \in DOMAIN states
                 THEN WriteCall("state_mutate_cloned", id, f, Some(states[id]),
                                Some(Mutate(f, states[id])))
               ELSE WriteCall("state_mutate_cloned", id, f, None, None))

TrackedProcess ==
    /\ ProcessCall("process", dirty)
    /\ write_calls' = Append(Open, ProcessCalled)
    /\ UNCHANGED <<teleport_vars, pass_vars, fn_vars>>

WriteNext ==
    \/ \E t \in WriteTrees : TrackedApply(t)
    \/ \E id \in WriteIds, data \in WrittenProps : TrackedStateWrite(id, data)
    \/ \E id \in WriteIds, f \in Mutators : TrackedStateMutate(id, f)
    \/ \E id \in WriteIds, f \in Mutators : TrackedStateMutateCloned(id, f)
    \/ TrackedProcess

WriteSpec == Init /\ [][WriteNext]_vars

\* the step is a call of a state writer; the call is the last one tracked
WriterCalled == write_calls' # write_calls /\ write_calls'[Len(write_calls')].fn # "process"

\* C33: a call of state_write, state_mutate or state_mutate_cloned for an
\* Identity that is not in the State store calls no closure, stages nothing,
\* leaves the tree, the published tree, every store and the forced flag as
\* they were, and leaves the gate of the next process call as it was: the
\* call would run a pass after it exactly when it would have before.
C33_IgnoredWrites ==
    [][(WriterCalled /\ write_calls'[Len(write_calls')].id \notin DOMAIN states) =>
         /\ write_calls'[Len(write_calls')].given = None
         /\ write_calls'[Len(write_calls')].result = None
         /\ UNCHANGED <<tree, rendered_tree, states, state_changes, animators, messages,
                        signals, unmount_closures, dirty, change_notifier>>
         /\ ShouldRun(dirty' \/ change_notifier', state_changes', messages', animators')
              <=> WouldRun]_vars

\* two different writers were called for an Identity that is
\* not in the State store while another is, and the next process call would
\* run no pass
C33_Witness ==
    /\ Len(write_calls) = MaxWrites
    /\ \A i \in 1..Len(write_calls) :
         write_calls[i].fn # "process" /\ write_calls[i].id \notin DOMAIN states
    /\ \E i \in 1..Len(write_calls) : write_calls[i].fn = "state_mutate"
    /\ \E i \in 1..Len(write_calls) : write_calls[i].fn # "state_mutate"
    /\ states # EmptyMap
    /\ ~WouldRun


----------------------------------------------------------------------------
(* The stores after a pass                                                 *)

\* C34: after a pass that ran, the identities in the State store are those
\* the pass used, and in every state the identities that have an animator
\* or stored unmount closures are in the State store.
C34_StoresFollowUse ==
    /\ (op \in ProcessCalls /\ ran) => DOMAIN states = used_ids
    /\ DOMAIN animators \subseteq DOMAIN states
    /\ DOMAIN unmount_closures \subseteq DOMAIN states

\* a pass pruned identities that had unmount closures and left an animator
\* and unmount closures for identities it used
C34_Witness ==
    /\ op \in ProcessCalls
    /\ ran
    /\ \E n \in 1..Len(log) : log[n].ev = "unmount"
    /\ DOMAIN animators # {}
    /\ DOMAIN unmount_closures # {}
    /\ used_ids # {}


----------------------------------------------------------------------------
(* Identities within one pass                                              *)

\* the places in the log of the pass where a composite was invoked
Invokes == {n \in 1..Len(log) : log[n].ev = "invoke"}

\* C35 as the specification states it: in a pass in which no invoked
\* composite carries an explicit key, no two invocations are under the same
\* Identity.
C35_Claim ==
    (op \in ProcessCalls /\ ran /\ \A n \in Invokes : log[n].explicit = None) =>
        \A m \in Invokes, n \in Invokes : m # n => log[m].id # log[n].id


----------------------------------------------------------------------------
(* Several portals for one multi-slot owner                                *)

\* teleport_portals has returned after extracting portals from a multi-slot
\* root, every one of them owned by the root
AllOwnedByRoot ==
    /\ teleport_pc = "done"
    /\ t_count > 0
    /\ root_in.unit \in MultiSlot
    /\ \A i \in 1..Len(extracted) : extracted[i][1] = root_in.id

\* C36 as the specification states it: when every extracted portal names
\* the multi-slot root, the root's items are those it was left with by the
\* extraction followed by the payloads of the portals, in the order of
\* extraction.
C36_Claim ==
    AllOwnedByRoot =>
        t_root.items = stripped.items
                       \o [i \in 1..Len(extracted) |->
                             PortalItem(root_in.unit, extracted[i][2])]


----------------------------------------------------------------------------
(* Termination of teleport_portals and the content of its output           *)

\* how many TextBox nodes of a frozen tree show the text k
RECURSIVE TextCount(_, _)
RECURSIVE TextCountItems(_, _)
TextCount(unit, k) ==
    CASE unit.unit \in SingleSlot -> TextCount(unit.slot, k)
      [] unit.unit \in MultiSlot -> TextCountItems(unit.items, k)
      [] unit.unit = "PortalBox" -> TextCount(unit.slot.slot, k)
      [] unit.unit = "TextBox" -> IF unit.text = k THEN 1 ELSE 0
      [] OTHER -> 0

TextCountItems(items, k) ==
    IF items = <<>> THEN 0
    ELSE TextCount(Head(items).slot, k) + TextCountItems(Tail(items), k)

\* how many nodes of a frozen tree have a slot or items and the Identity id
RECURSIVE BoxCount(_, _)
RECURSIVE BoxCountItems(_, _)
BoxCount(unit, id) ==
    CASE unit.unit \in SingleSlot ->
           (IF unit.id = id THEN 1 ELSE 0) + BoxCount(unit.slot, id)
      [] unit.unit \in MultiSlot ->
           (IF unit.id = id THEN 1 ELSE 0) + BoxCountItems(unit.items, id)
      [] unit.unit = "PortalBox" -> BoxCount(unit.slot.slot, id)
      [] OTHER -> 0

BoxCountItems(items, id) ==
    IF items = <<>> THEN 0
    ELSE BoxCount(Head(items).slot, id) + BoxCountItems(Tail(items), id)

\* the steps teleport_portals has left to take
StepsLeft(pc) ==
    CASE pc = "start" -> 3
      [] pc = "estimated" -> 2
      [] pc = "consumed" -> 1
      [] OTHER -> 0

\* teleport_portals has returned a tree that holds no text and no box more
\* often than the input did, having taken from the holding list no more
\* entries than the input has portals, and the input itself when the input
\* has no portal
TeleportReturned ==
    /\ teleport_pc = "done"
    /\ \A k \in Texts(root_in) \cup Texts(t_root) :
         TextCount(t_root, k) <= TextCount(root_in, k)
    /\ \A id \in AllIds(root_in) \cup AllIds(t_root) :
         BoxCount(t_root, id) <= BoxCount(root_in, id)
    /\ Len(extracted) - Len(t_portals) <= EstimatePortals(root_in)
    /\ Len(t_portals) <= Len(extracted)
    /\ EstimatePortals(root_in) = 0 => t_root = root_in

\* C37: every step of teleport_portals leaves it fewer steps to take, the
\* loop of the injection having taken one entry from the holding list per
\* iteration; and what it returns holds every text and every box of the
\* input at most as often as the input does, after at most as many grafts
\* as the input has portals, and is the input when the input has no portal.
C37_TerminatesWithoutCopies ==
    [][/\ StepsLeft(teleport_pc') < StepsLeft(teleport_pc)
       /\ teleport_pc' = "done" => TeleportReturned']_vars

\* teleport_portals returned after grafting onto the root a payload that
\* holds the owner of another portal, and onto that owner the other
\* portal's payload
C37_Witness ==
    /\ teleport_pc = "done"
    /\ root_in.unit \in MultiSlot
    /\ Len(extracted) = 2
    /\ t_portals = <<>>
    /\ TextCount(root_in, 9) = 1
    /\ TextCount(t_root, 9) = 1
    /\ BoxCount(t_root, IdCarrier) = 1


----------------------------------------------------------------------------
(* Deferred state writes                                                   *)

\* the step is a call of process made after calls of the state writers
ProcessedWrites == write_calls' # write_calls /\ Open # <<>>
                   /\ write_calls'[Len(write_calls')].fn = "process"

\* the calls made since the last call of process that staged a replacement
\* for `id`
StagedFor(id) == {i \in 1..Len(Open) : Open[i].id = id /\ Open[i].result # None}

\* the last of a non-empty set of places
LastOf(S) == CHOOSE i \in S : \A j \in S : j <= i

\* C38: a call of a state writer for an Identity in the State store leaves
\* the State store as it was, so that state_read returns the old state; the
\* closure of state_mutate and of state_mutate_cloned is called with the
\* stored state, whatever is pending for the Identity, and what it returns
\* is what is pending afterwards.  The process call that follows runs a
\* pass, after which the state of an Identity still in the store is what the
\* last call staged for it, nothing of an earlier call's result remaining.
C38_DeferredWrites ==
    [][/\ (WriterCalled /\ write_calls'[Len(write_calls')].id \in DOMAIN states) =>
            LET call == write_calls'[Len(write_calls')]
            IN  /\ states' = states
                /\ call.id \in DOMAIN state_changes'
                /\ call.fn = "state_write" => state_changes'[call.id] \in WrittenProps
                /\ call.fn # "state_write" =>
                     /\ call.given = Some(states[call.id])
                     /\ state_changes'[call.id] = Mutate(call.f, states[call.id])
       /\ ProcessedWrites =>
            \A id \in WriteIds :
                StagedFor(id) # {} =>
                    /\ ran'
                    /\ id \in DOMAIN states' =>
                         /\ states'[id] = Open[LastOf(StagedFor(id))].result[1]
                         /\ Open[LastOf(StagedFor(id))].fn # "state_write" =>
                              states'[id] = Mutate(Open[LastOf(StagedFor(id))].f, states[id])
      ]_vars

\* state_mutate was called twice for one Identity with two closures, both
\* were given the same stored state, and the pass that followed left the
\* Identity with what the second returned, which shows nothing of the first
C38_Witness ==
    /\ Len(write_calls) = 3
    /\ write_calls[1].fn = "state_mutate" /\ write_calls[1].f = "bump"
    /\ write_calls[2].fn = "state_mutate" /\ write_calls[2].f = "mark"
    /\ write_calls[3].fn = "process"
    /\ write_calls[1].id = IdKeyed /\ write_calls[2].id = IdKeyed
    /\ write_calls[1].given # None
    /\ write_calls[1].given = write_calls[2].given
    /\ write_calls[1].result # write_calls[2].result
    /\ ran
    /\ IdKeyed \in DOMAIN states
    /\ states[IdKeyed] = write_calls[2].result[1]
    /\ StateValue(states[IdKeyed]) = StateValue(write_calls[1].given[1])


----------------------------------------------------------------------------
(* A pass whose conversion fails                                           *)

\* a tree that keeps the counter of TreeKeyed, drops its animated composite,
\* mounts a size_box, and holds a tuple with a component in it, which the
\* walk leaves unresolved
TreeHalf ==
    Component("flex_box", Some("root"),
              <<Component("counter", Some("a"), <<>>), Component("size_box", None, <<>>),
                TupleNode(<<Component("counter", None, <<>>)>>)>>)

FailTrees == {TreeKeyed, TreeHalf}

\* a driver that swaps the two trees, writes the state of the counter, sends
\* it a message and calls process
FailNext ==
    \/ \E t \in FailTrees : Apply(t)
    \/ SendMessage(IdKeyed, "m")
    \/ \E data \in WrittenProps : StateWrite(IdKeyed, data)
    \/ Process

FailSpec == Init /\ [][FailNext]_vars

\* the state an Identity has when a pass starts: the replacement pending for
\* it, or else the stored state, or else none
AtStart(id) ==
    IF id \in DOMAIN state_changes THEN Some(state_changes[id])
    ELSE IF id \in DOMAIN states THEN Some(states[id])
    ELSE None

\* C39: a pass whose conversion fails returns false and leaves the
\* published tree as it was, with the forced flag cleared; the State store
\* holds the identities the pass used, each with the replacement that was
\* pending for it, or else its stored state, or else the default state of a
\* new mount; the identities it did not use are gone from the State,
\* Animation and teardown stores, their teardown closures having fired once
\* each; the signal list holds the signals of the pass; the message store
\* holds only what was sent in the pass.  A process call that directly
\* follows returns false, leaves the published tree as it was, and runs no
\* pass unless the failed pass left a replacement, a message or an animation
\* behind.
C39_FailedPassCommits ==
    [][/\ (op' \in ProcessCalls /\ ran' /\ ~converted') =>
            /\ ~ret'
            /\ rendered_tree' = rendered_tree
            /\ ~dirty'
            /\ DOMAIN states' = used_ids'
            /\ \A id \in used_ids' :
                 states'[id] = IF AtStart(id) # None THEN AtStart(id)[1] ELSE DefaultProps
            /\ \A id \in (DOMAIN states \cup DOMAIN state_changes) \ used_ids' :
                 /\ id \notin DOMAIN states'
                 /\ id \notin DOMAIN animators'
                 /\ id \notin DOMAIN unmount_closures'
                 /\ id \in DOMAIN unmount_closures =>
                      Cardinality(UnmountsOf(log', id)) = Len(unmount_closures[id])
            /\ signals' = SignalsOf(log')
            /\ messages' = ReceiveMessages(EmptyMap, outbox')
       /\ (op \in ProcessCalls /\ ran /\ ~converted /\ op' = "process") =>
            /\ ~ret'
            /\ rendered_tree' = rendered_tree
            /\ ~WouldRun => ~ran'
      ]_vars

\* the animated composite of TreeKeyed, which TreeHalf drops, and the
\* size_box that TreeHalf mounts in its place
IdDropped == WidgetIdNew("animated", <<"root", "<1>">>)
IdMounted == WidgetIdNew("size_box", <<"root", "<1>">>)

\* a pass over TreeHalf failed to convert while the tree of an earlier pass
\* over TreeKeyed stays published: it merged a written replacement into the
\* state of the counter it kept, dropped the message
\* queued for that counter, created a State entry for the size_box, and
\* pruned the animated composite, firing its teardown closure
C39_Witness ==
    /\ op = "process"
    /\ ran
    /\ ~converted
    /\ tree = TreeHalf
    /\ rendered_tree # NoUnit
    /\ IdKeyed \in DOMAIN states
    /\ states[IdKeyed] \in WrittenProps
    /\ \E n \in 1..Len(log) :
         log[n].ev = "change" /\ log[n].id = IdKeyed /\ log[n].messages # <<>>
    /\ IdMounted \in DOMAIN states
    /\ \E n \in 1..Len(log) : log[n].ev = "unmount" /\ log[n].id = IdDropped
    /\ IdDropped \notin DOMAIN states \cup DOMAIN animators \cup DOMAIN unmount_closures
    /\ messages = EmptyMap
    /\ ~dirty


----------------------------------------------------------------------------
(* A process call that runs no pass                                        *)

====
